---- MODULE Spec2Model ----
(***************************************************************************)
(* Portfolio analytics core of Stock-Portfolio-Score-engine                *)
(* (src/app/performance.py): equity curve per holding, portfolio           *)
(* aggregation with forward fill, invested value, rebasing, return,        *)
(* max drawdown, Sharpe ratio; and its diversification module              *)
(* (src/app/diversification.py): weights, HHI, Gini, top-5 concentration,  *)
(* sector and market-cap allocation, score.                                *)
(*                                                                         *)
(* Numbers.  The code computes in IEEE doubles.  A number is modelled as   *)
(* an exact rational <<n, d>> in lowest terms with d > 0, extended with    *)
(* the three non-finite doubles: NaN = <<0,0>>, +inf = <<1,0>>,            *)
(* -inf = <<-1,0>>.  Binary rounding error of doubles is not modelled;     *)
(* the decimal rounding the code applies to its outputs (round, np.round)  *)
(* is.                                                                     *)
(*                                                                         *)
(* Timestamps.  A bar's 'date' is already a timestamp when it reaches the  *)
(* core (dhan_client.py builds it with pd.to_datetime(int, unit="s")), so  *)
(* pd.to_datetime leaves it as it is; a timestamp is modelled as an        *)
(* integer.                                                                *)
(***************************************************************************)
EXTENDS Integers, Sequences, FiniteSets, TLC

VARIABLES
    pc,         \* position of the caller: which call has been made
    bars,       \* argument of equity_curve_for_holding
    quantity,   \* argument of equity_curve_for_holding
    holdings,   \* argument of portfolio_timeseries / run_performance_module
    ohlc_map,   \* argument of portfolio_timeseries / run_performance_module
    curve,      \* argument of max_drawdown
    returns,    \* argument of sharpe_ratio
    meta_map,   \* argument of run_diversification_module
    prices,     \* argument of run_diversification_module
    numeric,    \* number type of the quantities and prices: "python" or "numpy"
    log,        \* the calls made to collaborators so far, in order
    cache,      \* DhanInstrumentLookup._meta_cache
    result,     \* value returned by the last call (or Raised)
    trace,      \* locals of the call: at its return, or while it runs
    prev        \* result of the previous call, kept by the caller

vars == <<pc, bars, quantity, holdings, ohlc_map, curve, returns, meta_map, prices, numeric,
          log, cache, result, trace, prev>>

(***************************************************************************)
(* Extended rational arithmetic (the float operations the code uses).      *)
(***************************************************************************)
Abs(n) == IF n < 0 THEN -n ELSE n

RECURSIVE GCD(_, _)
GCD(a, b) == IF b = 0 THEN a ELSE GCD(b, a % b)

NaN == <<0, 0>>
PInf == <<1, 0>>
NInf == <<-1, 0>>

\* n/d in lowest terms, d > 0
Q(n, d) ==
    LET g == GCD(Abs(n), d)
    IN  <<n \div g, d \div g>>

R(n) == <<n, 1>>
Zero == R(0)

IsNaN(x) == x = NaN
IsFinite(x) == x[2] # 0
Sign(x) == IF x[1] > 0 THEN 1 ELSE IF x[1] < 0 THEN -1 ELSE 0

RNeg(a) == <<-a[1], a[2]>>

RAdd(a, b) ==
    IF IsNaN(a) \/ IsNaN(b) THEN NaN
    ELSE IF IsFinite(a) /\ IsFinite(b) THEN Q(a[1] * b[2] + b[1] * a[2], a[2] * b[2])
    ELSE IF ~IsFinite(a) /\ ~IsFinite(b) THEN (IF a = b THEN a ELSE NaN)
    ELSE IF ~IsFinite(a) THEN a ELSE b

RSub(a, b) == RAdd(a, RNeg(b))

RMul(a, b) ==
    IF IsNaN(a) \/ IsNaN(b) THEN NaN
    ELSE IF IsFinite(a) /\ IsFinite(b) THEN Q(a[1] * b[1], a[2] * b[2])
    ELSE IF Sign(a) * Sign(b) = 0 THEN NaN
    ELSE <<Sign(a) * Sign(b), 0>>

\* numpy/pandas division: x/0 is +-inf, 0/0 is NaN
RDiv(a, b) ==
    IF IsNaN(a) \/ IsNaN(b) THEN NaN
    ELSE IF ~IsFinite(b) THEN (IF IsFinite(a) THEN Zero ELSE NaN)
    ELSE IF ~IsFinite(a) THEN (IF Sign(b) < 0 THEN RNeg(a) ELSE a)
    ELSE IF b[1] = 0 THEN <<Sign(a), 0>>
    ELSE IF b[1] < 0 THEN Q(-(a[1] * b[2]), -(a[2] * b[1]))
    ELSE Q(a[1] * b[2], a[2] * b[1])

\* a < b; every comparison with NaN is false
RLt(a, b) ==
    /\ ~IsNaN(a)
    /\ ~IsNaN(b)
    /\ IF IsFinite(a) /\ IsFinite(b) THEN a[1] * b[2] < b[1] * a[2]
       ELSE IF ~IsFinite(a) THEN a = NInf /\ b # NInf
       ELSE b = PInf

RLe(a, b) == ~IsNaN(a) /\ ~IsNaN(b) /\ (a = b \/ RLt(a, b))
RGt(a, b) == RLt(b, a)

RMax(a, b) == IF RLt(a, b) THEN b ELSE a
RMin(a, b) == IF RLt(b, a) THEN b ELSE a

\* round half to even, to an integer (finite x)
RoundInt(x) ==
    LET q == x[1] \div x[2]
        r == x[1] - q * x[2]
    IN  IF 2 * r < x[2] THEN q
        ELSE IF 2 * r > x[2] THEN q + 1
        ELSE IF q % 2 = 0 THEN q ELSE q + 1

\* round(x, 2) / np.round(x, 3): to `scale` = 10^digits; NaN and inf pass through
RoundTo(x, scale) ==
    IF ~IsFinite(x) THEN x ELSE Q(RoundInt(RMul(x, R(scale))), scale)

Cent == 100
Milli == 1000
Round2(x) == RoundTo(x, Cent)
Round3(x) == RoundTo(x, Milli)

(***************************************************************************)
(* Data.  A bar sequence is None or a table: the DataFrame pd.DataFrame    *)
(* builds from it, with the flags saying whether it has a 'date' and a     *)
(* 'close' column and one row per bar.  A row's close is NaN when that bar *)
(* carries no close.  A series is a sequence of points [t, v].             *)
(***************************************************************************)
NoBars == [kind |-> "None"]
Frame(hd, hc, rows) == [kind |-> "frame", has_date |-> hd, has_close |-> hc, rows |-> rows]
Bar(t, c) == [date |-> t, close |-> c]
Pt(t, v) == [t |-> t, v |-> v]
EmptySeries == << >>

\* dict.get(key, default)
Get(row, key, default) == IF key \in DOMAIN row THEN row[key] ELSE default

Range(s) == {s[i] : i \in DOMAIN s}

\* the sequences over S of length at most n
SeqUpTo(S, n) == UNION {[1..k -> S] : k \in 0..n}

IsMonotonic(rows) == \A i \in 1..(Len(rows) - 1) : rows[i].date <= rows[i + 1].date

\* mutant of SortIndexOrders: the rows are left in the order given
SortIndexOrders_Unsorted(rows) == {[i \in 1..Len(rows) |-> i]}

\* DataFrame.sort_index(): an index already in order is left as it is; otherwise
\* the rows are argsorted with numpy's default (unstable) sort, so rows with
\* equal timestamps may come out in any order.
SortIndexOrders(rows) ==
    IF IsMonotonic(rows) THEN {[i \in 1..Len(rows) |-> i]}
    ELSE {p \in [1..Len(rows) -> 1..Len(rows)] :
            /\ \A i, j \in 1..Len(rows) : i # j => p[i] # p[j]
            /\ \A i \in 1..(Len(rows) - 1) : rows[p[i]].date <= rows[p[i + 1]].date}

\* float(quantity) * df["close"], row by row
PositionValue(q, close) == RMul(q, close)

\* mutant of equity_curve_for_holding: the test for the 'date' column is missing
equity_curve_for_holding_NoDateTest(b, q) ==
    IF b.kind = "None" THEN {EmptySeries}
    ELSE IF Len(b.rows) = 0 \/ ~b.has_close THEN {EmptySeries}
    ELSE {[i \in 1..Len(b.rows) |-> Pt(b.rows[p[i]].date, PositionValue(q, b.rows[p[i]].close))] :
            p \in SortIndexOrders(b.rows)}

\* the values equity_curve_for_holding can return
equity_curve_for_holding(b, q) ==
    IF b.kind = "None" THEN {EmptySeries}
    ELSE IF Len(b.rows) = 0 \/ ~b.has_close \/ ~b.has_date THEN {EmptySeries}
    ELSE {[i \in 1..Len(b.rows) |-> Pt(b.rows[p[i]].date, PositionValue(q, b.rows[p[i]].close))] :
            p \in SortIndexOrders(b.rows)}

(***************************************************************************)
(* portfolio_timeseries: pd.concat(axis=1), sort_index, ffill,             *)
(* sum(axis=1, min_count=1), dropna.                                       *)
(***************************************************************************)
Returned(v) == [kind |-> "returned", val |-> v]
Raised == [kind |-> "raised"]

Timestamps(s) == {s[i].t : i \in DOMAIN s}
Index(s) == [i \in DOMAIN s |-> s[i].t]
HasDuplicates(s) == \E i, j \in DOMAIN s : i # j /\ s[i].t = s[j].t
Count(s, t) == Cardinality({i \in DOMAIN s : s[i].t = t})

SetMin(S) == CHOOSE x \in S : \A y \in S : x <= y
SetMax(S) == CHOOSE x \in S : \A y \in S : y <= x

RECURSIVE SortedSeq(_)
SortedSeq(S) == IF S = {} THEN << >> ELSE <<SetMin(S)>> \o SortedSeq(S \ {SetMin(S)})

RECURSIVE Repeated(_, _)
\* ts with each label t repeated mult[t] times
Repeated(ts, mult) ==
    IF ts = << >> THEN << >>
    ELSE [i \in 1..mult[Head(ts)] |-> Head(ts)] \o Repeated(Tail(ts), mult)

\* the holdings whose curve enters the aggregate (lines 36-41): present in the
\* price map, with a non-empty curve
Included(h, o) ==
    {sym \in DOMAIN h \cap DOMAIN o :
        EmptySeries \notin equity_curve_for_holding(o[sym], Get(h[sym], "quantity", Zero))}

\* the series lists the loop of lines 36-41 can build, as sym -> series
SeriesLists(h, o) ==
    LET inc == Included(h, o)
        eq(sym) == equity_curve_for_holding(o[sym], Get(h[sym], "quantity", Zero))
    IN  {f \in [inc -> UNION {eq(sym) : sym \in inc}] : \A sym \in inc : f[sym] \in eq(sym)}

RECURSIVE Reversed(_)
Reversed(sq) == IF sq = << >> THEN << >> ELSE Reversed(Tail(sq)) \o <<Head(sq)>>

\* mutant of UnionIndex: the labels sorted in descending order
UnionIndex_Descending(f) ==
    LET T == UNION {Timestamps(f[sym]) : sym \in DOMAIN f}
        mult == [t \in T |-> SetMax({Count(f[sym], t) : sym \in DOMAIN f})]
    IN  Reversed(Repeated(SortedSeq(T), mult))

\* the row labels of the concatenated frame: the sorted union of the indexes, a
\* repeated label as often as the series that repeats it most
UnionIndex(f) ==
    LET T == UNION {Timestamps(f[sym]) : sym \in DOMAIN f}
        mult == [t \in T |-> SetMax({Count(f[sym], t) : sym \in DOMAIN f})]
    IN  Repeated(SortedSeq(T), mult)

\* pandas can only reindex a series with repeated labels onto its own index
CanAlign(f) == \A sym \in DOMAIN f : HasDuplicates(f[sym]) => Index(f[sym]) = UnionIndex(f)

\* column of one series in the concatenated frame: NaN where it has no row
Column(s, U) ==
    [i \in DOMAIN U |->
        IF HasDuplicates(s) THEN s[i].v
        ELSE IF U[i] \in Timestamps(s) THEN s[CHOOSE j \in DOMAIN s : s[j].t = U[i]].v
        ELSE NaN]

\* mutant of FFill: nothing is filled
FFill_None(col) == col

\* Series.ffill(): a NaN cell takes the last non-NaN cell above it
FFill(col) ==
    [i \in DOMAIN col |->
        LET K == {k \in 1..i : ~IsNaN(col[k])}
        IN  IF K = {} THEN NaN ELSE col[SetMax(K)]]

RECURSIVE SumOver(_, _)
\* sum of g[x] over x in S
SumOver(S, g) ==
    IF S = {} THEN Zero
    ELSE LET x == CHOOSE y \in S : TRUE IN RAdd(g[x], SumOver(S \ {x}, g))

\* df.sum(axis=1, min_count=1) for one row: NaN cells are skipped, and a row with
\* no other cell sums to NaN
RowSum(cells) ==
    LET obs == {sym \in DOMAIN cells : ~IsNaN(cells[sym])}
    IN  IF obs = {} THEN NaN ELSE SumOver(obs, cells)

DropNa(s) == SelectSeq(s, LAMBDA p : ~IsNaN(p.v))

\* lines 46-54 on one series list
Aggregate(f) ==
    LET U == UnionIndex(f)
        cols == [sym \in DOMAIN f |-> FFill(Column(f[sym], U))]
    IN  DropNa([i \in DOMAIN U |-> Pt(U[i], RowSum([sym \in DOMAIN f |-> cols[sym][i]]))])

\* the outcomes of portfolio_timeseries: a curve, or the error pd.concat raises
\* when it has to reindex a series with repeated timestamps
portfolio_timeseries(h, o) ==
    IF Included(h, o) = {} THEN {Returned(EmptySeries)}
    ELSE UNION {IF CanAlign(f) THEN {Returned(Aggregate(f))} ELSE {Raised} : f \in SeriesLists(h, o)}

(***************************************************************************)
(* Risk / return metrics.                                                  *)
(***************************************************************************)
\* mutant of invested_value: only the holdings that are in the price map count
invested_value_PricedOnly(h) ==
    SumOver(DOMAIN h \cap DOMAIN ohlc_map,
            [sym \in DOMAIN h \cap DOMAIN ohlc_map |->
                RMul(Get(h[sym], "quantity", Zero), Get(h[sym], "buy_price", Zero))])

\* sum of float(quantity) * float(buy_price), a missing field counting 0.0
invested_value(h) ==
    SumOver(DOMAIN h,
            [sym \in DOMAIN h |->
                RMul(Get(h[sym], "quantity", Zero), Get(h[sym], "buy_price", Zero))])

Values(s) == [i \in DOMAIN s |-> s[i].v]

\* Series.cummax(): the running maximum, NaN entries skipped and left NaN
CumMax(vs) ==
    [i \in DOMAIN vs |->
        IF IsNaN(vs[i]) THEN NaN
        ELSE LET K == {k \in 1..i : ~IsNaN(vs[k])}
             IN  vs[CHOOSE k \in K : \A j \in K : RLe(vs[j], vs[k])]]

\* Series.min(): the least non-NaN entry, NaN when there is none
SeriesMin(vs) ==
    LET K == {k \in DOMAIN vs : ~IsNaN(vs[k])}
    IN  IF K = {} THEN NaN ELSE vs[CHOOSE k \in K : \A j \in K : RLe(vs[k], vs[j])]

Percent == 100

max_drawdown(c) ==
    IF c = EmptySeries THEN Zero
    ELSE LET vs == Values(c)
             rolling_peak == CumMax(vs)
             dd == [i \in DOMAIN vs |-> RDiv(RSub(vs[i], rolling_peak[i]), rolling_peak[i])]
         IN  RMul(SeriesMin(dd), R(Percent))

\* curve.pct_change().dropna(): v[i] / v[i-1] - 1, the first point and NaN dropped
daily_returns(c) ==
    IF c = EmptySeries THEN EmptySeries
    ELSE DropNa([i \in DOMAIN c |->
                    IF i = 1 THEN Pt(c[i].t, NaN)
                    ELSE Pt(c[i].t, RSub(RDiv(c[i].v, c[i - 1].v), R(1)))])

Window == 30
MinPeriods == 20

\* mutant of RollingEmits: a full window of observations is required
RollingEmits_FullWindow(rets) ==
    {i \in DOMAIN rets :
        Cardinality({k \in DOMAIN rets : k <= i /\ k > i - Window /\ IsFinite(rets[k].v)})
            >= Window}

\* the positions at which rolling(window=30, min_periods=20) emits a value: at
\* least 20 finite observations among the last 30 (rolling reads inf as NaN)
RollingEmits(rets) ==
    {i \in DOMAIN rets :
        Cardinality({k \in DOMAIN rets : k <= i /\ k > i - Window /\ IsFinite(rets[k].v)})
            >= MinPeriods}

\* every emitted rolling standard deviation is 0: each emitting window is constant
VolatilityZero(rets) ==
    \A i \in RollingEmits(rets) :
        \A k, l \in {m \in DOMAIN rets : m <= i /\ m > i - Window /\ IsFinite(rets[m].v)} :
            rets[k].v = rets[l].v

\* a finite double the model does not evaluate (rf_daily and the square roots
\* are irrational): kept symbolic, tagged with the series it was computed from
Symbolic(rets) == <<1, 1, rets>>
IsSymbolic(x) == Len(x) = 3

\* line 120, np.round(mean_return / avg_volatility, 3): avg_volatility is finite
\* and non-zero here; excess.mean() keeps inf, and +inf with -inf gives NaN
SharpeQuotient(rets) ==
    LET vs == {rets[i].v : i \in DOMAIN rets} IN
    IF PInf \in vs /\ NInf \in vs THEN NaN
    ELSE IF PInf \in vs THEN PInf
    ELSE IF NInf \in vs THEN NInf
    ELSE Symbolic(rets)

sharpe_ratio(rets) ==
    IF rets = EmptySeries THEN Zero
    ELSE IF RollingEmits(rets) = {} THEN Zero
    ELSE IF VolatilityZero(rets) THEN Zero
    ELSE SharpeQuotient(rets)

ScaleSeries(c, k) == [i \in DOMAIN c |-> Pt(c[i].t, RMul(c[i].v, k))]

\* mutant of Rebased: invested_value is not tested
Rebased_FirstOnly(curve_raw, inv_val) ==
    LET first_val == curve_raw[1].v
    IN  IF RGt(first_val, Zero)
        THEN ScaleSeries(curve_raw, RDiv(inv_val, first_val))
        ELSE curve_raw

\* mutant of Rebased: the raw curve is used as it is
Rebased_Raw(curve_raw, inv_val) == curve_raw

\* lines 153-160: the curve the metrics are computed from
Rebased(curve_raw, inv_val) ==
    LET first_val == curve_raw[1].v
    IN  IF RGt(first_val, Zero) /\ RGt(inv_val, Zero)
        THEN ScaleSeries(curve_raw, RDiv(inv_val, first_val))
        ELSE curve_raw

\* mutant of ReturnPct: the ratio is not turned into a percentage change
ReturnPct_Ratio(port_val, inv_val) ==
    IF RGt(inv_val, Zero) THEN RDiv(port_val, inv_val) ELSE Zero

\* mutant of ReturnPct: the gain in currency, not relative to invested_value
ReturnPct_Absolute(port_val, inv_val) ==
    IF RGt(inv_val, Zero) THEN RSub(port_val, inv_val) ELSE Zero

\* line 164
ReturnPct(port_val, inv_val) ==
    IF RGt(inv_val, Zero)
    THEN RMul(RSub(RDiv(port_val, inv_val), R(1)), R(Percent))
    ELSE Zero

\* mutant of PerformanceOf: no early return for an empty curve, the metrics are
\* computed from a portfolio value of 0
PerformanceOf_NoEarlyReturn(curve_raw, h) ==
    LET inv_val == invested_value(h)
        c == IF curve_raw = EmptySeries THEN EmptySeries ELSE Rebased(curve_raw, inv_val)
        port_val == IF c = EmptySeries THEN Zero ELSE c[Len(c)].v
    IN  [ret |-> [portfolio_value |-> Round2(port_val),
                  invested_value |-> Round2(inv_val),
                  return_pct |-> Round3(ReturnPct(port_val, inv_val)),
                  sharpe_ratio |-> sharpe_ratio(daily_returns(c)),
                  max_drawdown |-> Round3(max_drawdown(c))],
         curve_raw |-> curve_raw, curve |-> c, inv_val |-> inv_val,
         port_val |-> port_val, ret_pct |-> ReturnPct(port_val, inv_val)]

\* run_performance_module on the curve portfolio_timeseries returned: the dict it
\* returns, with its locals (port_val and ret_pct are not computed before the
\* early return of lines 144-151 and stand as 0 there)
PerformanceOf(curve_raw, h) ==
    LET inv_val == invested_value(h)
    IN  IF curve_raw = EmptySeries
        THEN [ret |-> [portfolio_value |-> Zero,
                       invested_value |-> Round2(inv_val),
                       return_pct |-> Zero,
                       sharpe_ratio |-> Zero,
                       max_drawdown |-> Zero],
              curve_raw |-> curve_raw, curve |-> EmptySeries, inv_val |-> inv_val,
              port_val |-> Zero, ret_pct |-> Zero]
        ELSE LET c == Rebased(curve_raw, inv_val)
                 port_val == c[Len(c)].v
                 ret_pct == ReturnPct(port_val, inv_val)
             IN  [ret |-> [portfolio_value |-> Round2(port_val),
                           invested_value |-> Round2(inv_val),
                           return_pct |-> Round3(ret_pct),
                           sharpe_ratio |-> sharpe_ratio(daily_returns(c)),
                           max_drawdown |-> Round3(max_drawdown(c))],
                  curve_raw |-> curve_raw, curve |-> c, inv_val |-> inv_val,
                  port_val |-> port_val, ret_pct |-> ret_pct]

\* the outcomes of run_performance_module: an error of portfolio_timeseries
\* passes through
run_performance_module(h, o) ==
    {IF r.kind = "raised" THEN [kind |-> "raised", locals |-> << >>]
     ELSE LET p == PerformanceOf(r.val, h)
          IN  [kind |-> "returned", val |-> p.ret,
               locals |-> [curve_raw |-> p.curve_raw, curve |-> p.curve, inv_val |-> p.inv_val,
                           port_val |-> p.port_val, ret_pct |-> p.ret_pct]] :
        r \in portfolio_timeseries(h, o)}

(***************************************************************************)
(* Inputs.  The functions are pure: each specification starts from         *)
(* arguments drawn from a bounded set, and its actions are the calls.      *)
(***************************************************************************)
MaxBars == 2        \* bars per holding

Syms == {"A", "B"}
Dates == {1, 2, 3}
Closes == {NaN, R(1), R(2)}
NoValue == << >>    \* value of a variable the specification does not use

Bars(closes) == {Bar(t, c) : t \in Dates, c \in closes}

\* the tables of at most n bars, in any order, timestamps possibly repeated
Frames(n, closes) == {Frame(TRUE, TRUE, rows) : rows \in SeqUpTo(Bars(closes), n)}

\* the tables of at most n bars in ascending order of distinct timestamps
CleanFrames(n, closes) ==
    {fr \in Frames(n, closes) :
        \A i \in 1..(Len(fr.rows) - 1) : fr.rows[i].date < fr.rows[i + 1].date}

\* None, a table without 'date', a table without 'close'
Defective ==
    {NoBars, Frame(FALSE, TRUE, <<Bar(1, R(1))>>), Frame(TRUE, FALSE, <<Bar(1, NaN)>>)}

\* a dict over a subset of Syms: option[sym] holds the possible values, Absent
\* standing for a key that is not in the dict
Absent == [kind |-> "absent"]
Dicts(option) ==
    {[sym \in {x \in Syms : g[x] # Absent} |-> g[sym]] :
        g \in {x \in [Syms -> UNION {option[y] : y \in Syms}] : \A y \in Syms : x[y] \in option[y]}}

(***************************************************************************)
(* The calls.                                                              *)
(***************************************************************************)
EquityCurveForHolding(b, q) ==
    /\ pc = "start"
    /\ bars' = b
    /\ quantity' = q
    /\ \E s \in equity_curve_for_holding(b, q) : result' = Returned(s)
    /\ pc' = "equity_curve_for_holding"
    /\ UNCHANGED <<holdings, ohlc_map, curve, trace, prev, returns, meta_map, prices, numeric, log, cache>>

\* line 39: the call portfolio_timeseries makes for one holding
EquityCurveOfHolding ==
    \E sym \in DOMAIN holdings \cap DOMAIN ohlc_map :
        EquityCurveForHolding(ohlc_map[sym], Get(holdings[sym], "quantity", Zero))

PortfolioTimeseries ==
    /\ pc = "start"
    /\ result' \in portfolio_timeseries(holdings, ohlc_map)
    /\ pc' = "portfolio_timeseries"
    /\ UNCHANGED <<bars, quantity, holdings, ohlc_map, curve, trace, prev, returns, meta_map, prices, numeric, log, cache>>

(***************************************************************************)
(* SpecEq: equity_curve_for_holding on one bar sequence.                   *)
(***************************************************************************)
EqQuantities == {Zero, R(2), Q(1, 2)}

InitEq ==
    /\ pc = "start"
    /\ bars \in Frames(MaxBars + 1, Closes) \cup Defective
    /\ quantity \in EqQuantities
    /\ holdings = NoValue /\ ohlc_map = NoValue /\ curve = NoValue
    /\ returns = NoValue /\ meta_map = NoValue /\ prices = NoValue /\ numeric = NoValue
    /\ log = NoValue /\ cache = NoValue
    /\ result = NoValue /\ trace = NoValue /\ prev = NoValue

NextEq == EquityCurveForHolding(bars, quantity)

SpecEq == InitEq /\ [][NextEq]_vars

(***************************************************************************)
(* SpecTs: portfolio_timeseries on a holdings mapping and a price map.     *)
(* Holding A's bars come in any order and may repeat timestamps; B's are   *)
(* in ascending order of distinct timestamps.                              *)
(***************************************************************************)
TsRows ==
    [A |-> {Absent, [quantity |-> R(2), buy_price |-> R(1)], [buy_price |-> R(1)]},
     B |-> {Absent, [quantity |-> R(1), buy_price |-> R(1)]}]

TsBars ==
    [A |-> {Absent} \cup Frames(MaxBars, Closes) \cup Defective,
     B |-> {Absent} \cup CleanFrames(MaxBars, Closes) \cup Defective]

InitTs ==
    /\ pc = "start"
    /\ holdings \in Dicts(TsRows)
    /\ ohlc_map \in Dicts(TsBars)
    /\ bars = NoValue /\ quantity = NoValue /\ curve = NoValue
    /\ returns = NoValue /\ meta_map = NoValue /\ prices = NoValue /\ numeric = NoValue
    /\ log = NoValue /\ cache = NoValue
    /\ result = NoValue /\ trace = NoValue /\ prev = NoValue

NextTs == PortfolioTimeseries \/ EquityCurveOfHolding

SpecTs == InitTs /\ [][NextTs]_vars

(***************************************************************************)
(* Spec: run_performance_module on a holdings mapping and a price map, and *)
(* a caller that runs it again on the same portfolio with every close and  *)
(* every buy price multiplied by a positive constant.                      *)
(***************************************************************************)
PerfCloses == {Zero, R(1), R(2)}

PerfRows ==
    [A |-> {Absent,
            [quantity |-> R(2), buy_price |-> R(1)],
            [quantity |-> R(2)],
            [quantity |-> Zero, buy_price |-> R(1)],
            [buy_price |-> R(3)],
            [quantity |-> Q(1, 3), buy_price |-> R(1)]},
     B |-> {Absent,
            [quantity |-> R(1), buy_price |-> R(2)],
            [quantity |-> R(1), buy_price |-> Zero]}]

PerfBars == [sym \in Syms |-> {Absent, NoBars} \cup CleanFrames(MaxBars, PerfCloses)]

\* the example of the specification's section 8
ExampleHoldings ==
    [A |-> [quantity |-> R(10), buy_price |-> R(100)],
     B |-> [quantity |-> R(5), buy_price |-> R(200)]]
ExampleOhlc ==
    [A |-> Frame(TRUE, TRUE, <<Bar(1, R(100)), Bar(2, R(110)), Bar(3, R(121))>>),
     B |-> Frame(TRUE, TRUE, <<Bar(1, R(200)), Bar(2, R(190)), Bar(3, R(209))>>)]

Factors == {R(3), Q(1, 2)}

Init ==
    /\ pc = "start"
    /\ \/ holdings \in Dicts(PerfRows) /\ ohlc_map \in Dicts(PerfBars)
       \/ holdings = ExampleHoldings /\ ohlc_map = ExampleOhlc
    /\ bars = NoValue /\ quantity = NoValue /\ curve = NoValue
    /\ returns = NoValue /\ meta_map = NoValue /\ prices = NoValue /\ numeric = NoValue
    /\ log = NoValue /\ cache = NoValue
    /\ result = NoValue /\ trace = NoValue /\ prev = NoValue

RunPerformanceModule ==
    /\ pc \in {"start", "scaled"}
    /\ \E r \in run_performance_module(holdings, ohlc_map) :
        /\ result' = IF r.kind = "raised" THEN Raised ELSE Returned(r.val)
        /\ trace' = r.locals
    /\ pc' = IF pc = "start" THEN "run_performance_module" ELSE "rerun"
    /\ UNCHANGED <<bars, quantity, holdings, ohlc_map, curve, prev, returns, meta_map, prices, numeric, log, cache>>

ScaleRow(row, k) ==
    [key \in DOMAIN row |-> IF key = "buy_price" THEN RMul(row[key], k) ELSE row[key]]

ScaleBars(b, k) ==
    IF b.kind = "None" THEN b
    ELSE [b EXCEPT !.rows = [i \in DOMAIN b.rows |-> Bar(b.rows[i].date, RMul(b.rows[i].close, k))]]

\* the caller multiplies every buy price and every close by k
ScaleInputs(k) ==
    /\ pc = "run_performance_module"
    /\ prev' = [result |-> result, trace |-> trace, k |-> k]
    /\ holdings' = [sym \in DOMAIN holdings |-> ScaleRow(holdings[sym], k)]
    /\ ohlc_map' = [sym \in DOMAIN ohlc_map |-> ScaleBars(ohlc_map[sym], k)]
    /\ pc' = "scaled"
    /\ UNCHANGED <<bars, quantity, curve, result, trace, returns, meta_map, prices, numeric, log, cache>>

Next == RunPerformanceModule \/ \E k \in Factors : ScaleInputs(k)

Spec == Init /\ [][Next]_vars

(***************************************************************************)
(* SpecDd: max_drawdown on one curve.                                      *)
(***************************************************************************)
MaxCurveLen == 3
DdValues == {Zero, R(1), R(2), R(3)}
CurveOf(vs) == [i \in DOMAIN vs |-> Pt(i, vs[i])]
ExampleCurve == CurveOf(<<R(100), R(80), R(90), R(70), R(120)>>)

InitDd ==
    /\ pc = "start"
    /\ curve \in {CurveOf(vs) : vs \in SeqUpTo(DdValues, MaxCurveLen)} \cup {ExampleCurve}
    /\ bars = NoValue /\ quantity = NoValue /\ holdings = NoValue /\ ohlc_map = NoValue
    /\ returns = NoValue /\ meta_map = NoValue /\ prices = NoValue /\ numeric = NoValue
    /\ log = NoValue /\ cache = NoValue
    /\ result = NoValue /\ trace = NoValue /\ prev = NoValue

MaxDrawdown ==
    /\ pc = "start"
    /\ result' = Returned(max_drawdown(curve))
    /\ pc' = "max_drawdown"
    /\ UNCHANGED <<bars, quantity, holdings, ohlc_map, curve, trace, prev, returns, meta_map, prices, numeric, log, cache>>

NextDd == MaxDrawdown

SpecDd == InitDd /\ [][NextDd]_vars

(***************************************************************************)
(* Properties of equity_curve_for_holding and portfolio_timeseries.        *)
(***************************************************************************)
\* a bar sequence equity_curve_for_holding builds a curve from
Usable(b) == b.kind = "frame" /\ Len(b.rows) > 0 /\ b.has_date /\ b.has_close
RepeatsTimestamp(rows) == \E i, j \in DOMAIN rows : i # j /\ rows[i].date = rows[j].date
StrictlyIncreasing(s) == \A i \in 1..(Len(s) - 1) : s[i].t < s[i + 1].t
NonDecreasing(s) == \A i \in 1..(Len(s) - 1) : s[i].t <= s[i + 1].t
\* how often the point pt occurs in the series s
Occurrences(s, pt) == Cardinality({i \in DOMAIN s : s[i] = pt})
AfterEq == pc = "equity_curve_for_holding"
AfterTs == pc = "portfolio_timeseries"

\* C3 as stated: the curve is quantity x close at each bar timestamp, ascending,
\* each timestamp occurring once, the last bar of a repeated timestamp kept.
C3_LastOccurrenceKept ==
    (AfterEq /\ Usable(bars)) =>
        LET s == result.val
            last(t) == SetMax({i \in DOMAIN bars.rows : bars.rows[i].date = t})
        IN  /\ StrictlyIncreasing(s)
            /\ Timestamps(s) = {bars.rows[i].date : i \in DOMAIN bars.rows}
            /\ \A k \in DOMAIN s : s[k].v = RMul(quantity, bars.rows[last(s[k].t)].close)

\* C3 amended: the curve has one point per bar, quantity x close at the bar's
\* timestamp, in ascending (non-decreasing) order of timestamp; bars that share a
\* timestamp are all kept, so a timestamp occurs once exactly when the bars'
\* timestamps are distinct.
C3_OnePointPerBar ==
    (AfterEq /\ Usable(bars)) =>
        LET s == result.val
            pts == [i \in DOMAIN bars.rows |->
                        Pt(bars.rows[i].date, RMul(quantity, bars.rows[i].close))]
        IN  /\ Len(s) = Len(bars.rows)
            /\ NonDecreasing(s)
            /\ \A pt \in Range(pts) \cup Range(s) : Occurrences(s, pt) = Occurrences(pts, pt)
            /\ StrictlyIncreasing(s) <=> ~RepeatsTimestamp(bars.rows)

\* C3 witness: three bars out of order, two of them on one timestamp, both kept.
C3_Witness ==
    /\ AfterEq /\ Usable(bars)
    /\ Len(bars.rows) = 3 /\ ~IsMonotonic(bars.rows) /\ RepeatsTimestamp(bars.rows)
    /\ bars.rows[2].date = bars.rows[3].date /\ bars.rows[2].close # bars.rows[3].close
    /\ quantity = R(2)
    /\ Len(result.val) = 3

\* the holdings portfolio_timeseries aggregates: in both maps, with usable bars
Aggregated == {sym \in DOMAIN holdings \cap DOMAIN ohlc_map : Usable(ohlc_map[sym])}
\* no aggregated holding repeats a timestamp in its bars
CallerClean == \A sym \in Aggregated : ~RepeatsTimestamp(ohlc_map[sym].rows)
\* the observations of a holding at or before t: its bars that carry a close
ObservedBy(sym, t) ==
    {i \in DOMAIN ohlc_map[sym].rows :
        ohlc_map[sym].rows[i].date <= t /\ ~IsNaN(ohlc_map[sym].rows[i].close)}
\* the holding's most recent value at or before t
LastValue(sym, t) ==
    LET rows == ohlc_map[sym].rows
        i == CHOOSE k \in ObservedBy(sym, t) : \A j \in ObservedBy(sym, t) : rows[j].date <= rows[k].date
    IN  RMul(Get(holdings[sym], "quantity", Zero), rows[i].close)
AllTimestamps == UNION {{ohlc_map[sym].rows[i].date : i \in DOMAIN ohlc_map[sym].rows} : sym \in Aggregated}

\* C1: on bar sequences without repeated timestamps, the curve has exactly one
\* point at each timestamp t of the union at which some aggregated holding has an
\* observation at or before t, its value the sum of those holdings' most recent
\* values at or before t; holdings not yet observed add nothing, and a timestamp
\* at which no holding is observed yet is not in the curve.
C1_ForwardFilledSum ==
    (AfterTs /\ CallerClean) =>
        /\ result.kind = "returned"
        /\ Timestamps(result.val) \subseteq AllTimestamps
        /\ \A t \in AllTimestamps :
            LET seen == {sym \in Aggregated : ObservedBy(sym, t) # {}}
            IN  IF seen = {} THEN t \notin Timestamps(result.val)
                ELSE /\ Count(result.val, t) = 1
                     /\ \A k \in DOMAIN result.val :
                            result.val[k].t = t =>
                                result.val[k].v = SumOver(seen, [sym \in seen |-> LastValue(sym, t)])

\* C1 witness: A's only close so far is missing at t = 1 (dropped), A and B are
\* observed later at different timestamps, B's value carried forward to t = 3.
C1_Witness ==
    /\ AfterTs /\ CallerClean /\ Aggregated = {"A", "B"}
    /\ holdings["A"] = [quantity |-> R(2), buy_price |-> R(1)]
    /\ ohlc_map["A"].rows = <<Bar(3, R(2)), Bar(1, NaN)>>
    /\ ohlc_map["B"].rows = <<Bar(2, R(1))>>
    /\ result = Returned(<<Pt(2, R(1)), Pt(3, R(5))>>)

\* C2 as stated: the returned curve is strictly increasing in timestamp for
\* every input, bar sequences with repeated timestamps included.
C2_StrictlyIncreasingAlways ==
    (AfterTs /\ result.kind = "returned") => StrictlyIncreasing(result.val)

\* C2 amended: for every input in which no aggregated holding's bars repeat a
\* timestamp (bars in any order), portfolio_timeseries returns a curve that is
\* strictly increasing in timestamp.
C2_StrictlyIncreasingIfClean ==
    (AfterTs /\ CallerClean) => (result.kind = "returned" /\ StrictlyIncreasing(result.val))

\* C2 witness: unsorted bars of A interleaved with B's, three distinct timestamps out.
C2_Witness ==
    /\ AfterTs /\ CallerClean /\ Aggregated = {"A", "B"}
    /\ ~IsMonotonic(ohlc_map["A"].rows)
    /\ result.kind = "returned" /\ Len(result.val) = 3

\* C4: equity_curve_for_holding returns the empty curve for None, an empty
\* table, a table without 'date' or without 'close'; portfolio_timeseries
\* returns the empty curve when no holding is aggregated, and what it returns
\* is what it returns with the excluded holdings (empty curve, or not in the
\* price map) removed from both maps.
C4_EmptyCurves ==
    /\ (AfterEq /\ ~Usable(bars)) => result = Returned(EmptySeries)
    /\ (AfterTs /\ Aggregated = {}) => result = Returned(EmptySeries)
    /\ AfterTs =>
        /\ result.kind = "returned" => Timestamps(result.val) \subseteq AllTimestamps
        /\ result \in portfolio_timeseries([sym \in Aggregated |-> holdings[sym]],
                                            [sym \in Aggregated |-> ohlc_map[sym]])

\* C4 witness: A's bars lack the 'close' column, B is aggregated alone.
C4_Witness ==
    /\ AfterTs /\ Aggregated = {"B"} /\ "A" \in DOMAIN holdings /\ "A" \in DOMAIN ohlc_map
    /\ ohlc_map["A"].kind = "frame" /\ ~ohlc_map["A"].has_close
    /\ result.kind = "returned" /\ Len(result.val) = 2

(***************************************************************************)
(* Properties of run_performance_module.  The reported numbers carry the   *)
(* presentation rounding of section 4.3: money to 2 decimals, ratios to 3. *)
(***************************************************************************)
AfterRun == pc \in {"run_performance_module", "rerun"}
\* cost basis of one holding of the mapping, a missing field counting 0
CostBasis(sym) ==
    IF sym \in DOMAIN holdings
    THEN RMul(Get(holdings[sym], "quantity", Zero), Get(holdings[sym], "buy_price", Zero))
    ELSE Zero
TotalCost == RAdd(CostBasis("A"), CostBasis("B"))
Last(s) == s[Len(s)]

\* C5: the reported invested_value is the sum of quantity x buy_price over every
\* holding of the mapping, with or without a (non-empty) price series, a missing
\* quantity or buy_price counting 0.
C5_InvestedValueAllHoldings ==
    AfterRun =>
        /\ result.kind = "returned"
        /\ trace.inv_val = TotalCost
        /\ result.val.invested_value = Round2(TotalCost)

\* C5 witness: A has a cost basis and no price series, B has bars; both count.
C5_Witness ==
    /\ AfterRun /\ "A" \in DOMAIN holdings /\ "A" \notin DOMAIN ohlc_map /\ Aggregated = {"B"}
    /\ RGt(CostBasis("A"), Zero) /\ RGt(CostBasis("B"), Zero)
    /\ result.val.invested_value = Round2(RAdd(CostBasis("A"), CostBasis("B")))
    /\ Len(trace.curve_raw) = 2

\* C6: when the aggregated curve is empty (no holding has a usable bar) the call
\* raises nothing and returns portfolio_value, return_pct, sharpe_ratio and
\* max_drawdown 0.0 with the invested_value of the holdings.
C6_EmptyCurveZeroMetrics ==
    (AfterRun /\ (Aggregated = {} \/ trace.curve_raw = EmptySeries)) =>
        /\ Aggregated = {} /\ trace.curve_raw = EmptySeries
        /\ result = Returned([portfolio_value |-> Zero,
                              invested_value |-> Round2(TotalCost),
                              return_pct |-> Zero,
                              sharpe_ratio |-> Zero,
                              max_drawdown |-> Zero])

\* C6 witness: two holdings with a cost basis, one without bars (None), one not
\* in the price map.
C6_Witness ==
    /\ AfterRun /\ DOMAIN holdings = {"A", "B"} /\ DOMAIN ohlc_map = {"A"}
    /\ ohlc_map["A"] = NoBars
    /\ result.kind = "returned" /\ result.val.invested_value = R(4)
    /\ result.val.portfolio_value = Zero

\* C7: the curve is multiplied point by point by invested_value / first value
\* exactly when invested_value and the first value are both > 0 (its first point
\* is then invested_value); otherwise the metrics come from the unscaled curve.
C7_RebaseIffBothPositive ==
    (AfterRun /\ result.kind = "returned" /\ trace.curve_raw # EmptySeries) =>
        LET raw == trace.curve_raw
            first == raw[1].v
            both == RGt(first, Zero) /\ RGt(TotalCost, Zero)
            used == IF both
                    THEN [i \in DOMAIN raw |-> Pt(raw[i].t, RDiv(RMul(raw[i].v, TotalCost), first))]
                    ELSE raw
        IN  /\ Returned(raw) \in portfolio_timeseries(holdings, ohlc_map)
            /\ trace.curve = used
            /\ both => used[1].v = TotalCost
            /\ trace.port_val = Last(used).v
            /\ result.val.portfolio_value = Round2(Last(used).v)
            /\ result.val.max_drawdown = Round3(max_drawdown(used))
            /\ result.val.sharpe_ratio = sharpe_ratio(daily_returns(used))

\* C7 witness: both positive and different, so the curve really is scaled.
C7_Witness ==
    /\ AfterRun /\ result.kind = "returned" /\ trace.curve_raw # EmptySeries
    /\ RGt(trace.curve_raw[1].v, Zero) /\ RGt(TotalCost, Zero)
    /\ trace.curve_raw[1].v # TotalCost
    /\ trace.curve # trace.curve_raw /\ trace.curve[1].v = TotalCost
    /\ Len(trace.curve) = 2 /\ trace.curve[2].v # trace.curve[1].v

\* C7 witness of the other branch is part of the specification's reachable
\* states as well: invested_value 0 with a positive first value.
C7_UnscaledReached ==
    /\ AfterRun /\ result.kind = "returned" /\ trace.curve_raw # EmptySeries
    /\ TotalCost = Zero /\ RGt(trace.curve_raw[1].v, Zero)

\* C8: return_pct is (final value of the rebased curve / invested_value - 1) x 100
\* when invested_value > 0 and 0.0 otherwise; the example of section 8 gives
\* invested_value 2000, curve [2000, 2050, 2255], return_pct 12.75.
C8_ReturnPct ==
    /\ (AfterRun /\ result.kind = "returned" /\ trace.curve_raw # EmptySeries) =>
            LET pct == IF RGt(TotalCost, Zero)
                       THEN RMul(RSub(RDiv(Last(trace.curve).v, TotalCost), R(1)), R(100))
                       ELSE Zero
            IN  /\ trace.ret_pct = pct
                /\ result.val.return_pct = Round3(pct)
    /\ (pc = "run_performance_module" /\ holdings = ExampleHoldings /\ ohlc_map = ExampleOhlc) =>
            /\ result.kind = "returned"
            /\ result.val.invested_value = R(2000)
            /\ Values(trace.curve_raw) = <<R(2000), R(2050), R(2255)>>
            /\ trace.curve = trace.curve_raw
            /\ result.val.return_pct = Q(1275, 100)

\* C8 witness: the example has been run.
C8_Witness ==
    /\ pc = "run_performance_module" /\ holdings = ExampleHoldings /\ ohlc_map = ExampleOhlc
    /\ result.val.return_pct = Q(51, 4) /\ result.val.portfolio_value = R(2255)

\* C9: running again with every close and every buy price (hence the price curve
\* and invested_value) multiplied by k > 0 returns the same return_pct.
C9_ScaleInvariant ==
    pc = "rerun" =>
        /\ result.kind = prev.result.kind
        /\ result.kind = "returned" =>
            /\ result.val.return_pct = prev.result.val.return_pct
            /\ trace.ret_pct = prev.trace.ret_pct
            /\ trace.inv_val = RMul(prev.trace.inv_val, prev.k)
            /\ trace.curve_raw = ScaleSeries(prev.trace.curve_raw, prev.k)

\* C9 witness: a portfolio with a non-zero return, run again at three times the prices.
C9_Witness ==
    /\ pc = "rerun" /\ prev.k = R(3) /\ result.kind = "returned"
    /\ result.val.return_pct = prev.result.val.return_pct
    /\ result.val.return_pct \notin {Zero, R(-100)}
    /\ RGt(trace.inv_val, Zero) /\ trace.curve_raw # EmptySeries
    /\ trace.curve_raw[1].v # trace.inv_val

(***************************************************************************)
(* Properties of max_drawdown.                                             *)
(***************************************************************************)
AfterDd == pc = "max_drawdown"
Peak(i) == LET K == 1..i IN curve[CHOOSE k \in K : \A j \in K : RLe(curve[j].v, curve[k].v)].v
NonDecreasingValues == \A i \in 1..(Len(curve) - 1) : RLe(curve[i].v, curve[i + 1].v)

\* C10: max_drawdown is 100 x the least (value - running maximum) / running
\* maximum over the points; it is <= 0, 0.0 for an empty curve and for a
\* non-decreasing curve, and -30.0 for [100, 80, 90, 70, 120].
C10_MaxDrawdown ==
    AfterDd =>
        /\ result.kind = "returned"
        /\ RLe(result.val, Zero)
        /\ curve = EmptySeries => result.val = Zero
        /\ NonDecreasingValues => result.val = Zero
        /\ curve = ExampleCurve => result.val = R(-30)
        /\ (curve # EmptySeries /\ \A i \in DOMAIN curve : RGt(Peak(i), Zero)) =>
            /\ \E i \in DOMAIN curve :
                result.val = RMul(RDiv(RSub(curve[i].v, Peak(i)), Peak(i)), R(100))
            /\ \A i \in DOMAIN curve :
                RLe(result.val, RMul(RDiv(RSub(curve[i].v, Peak(i)), Peak(i)), R(100)))

\* C10 on curves whose running maximum is never 0: the same statement holds.
C10_PositivePeak ==
    (AfterDd /\ (curve = EmptySeries \/ RGt(curve[1].v, Zero))) => C10_MaxDrawdown

(***************************************************************************)
(* SpecSh: sharpe_ratio on one returns series.  A series is a run of one   *)
(* value followed by a run of another, long enough for the 30-period       *)
(* window to fill and slide.                                               *)
(***************************************************************************)
MaxReturns == 31
ShValues == {Zero, Q(1, 100), Q(-1, 100), PInf}
Run(a, m, b, n) == [i \in 1..(m + n) |-> Pt(i, IF i <= m THEN a ELSE b)]

InitSh ==
    /\ pc = "start"
    /\ returns \in {Run(a, m, b, n) : a, b \in ShValues, m, n \in 0..MaxReturns}
    /\ Len(returns) <= MaxReturns
    /\ bars = NoValue /\ quantity = NoValue /\ holdings = NoValue /\ ohlc_map = NoValue
    /\ curve = NoValue /\ meta_map = NoValue /\ prices = NoValue /\ numeric = NoValue
    /\ log = NoValue /\ cache = NoValue
    /\ result = NoValue /\ trace = NoValue /\ prev = NoValue

SharpeRatio ==
    /\ pc = "start"
    /\ result' = Returned(sharpe_ratio(returns))
    /\ pc' = "sharpe_ratio"
    /\ UNCHANGED <<bars, quantity, holdings, ohlc_map, curve, returns, meta_map, prices,
                   numeric, trace, prev, log, cache>>

NextSh == SharpeRatio

SpecSh == InitSh /\ [][NextSh]_vars

(***************************************************************************)
(* Properties of sharpe_ratio.                                             *)
(***************************************************************************)
AfterSh == pc = "sharpe_ratio"

\* the finite observations the rolling window ending at position i holds
Observations(i) ==
    {k \in 1..Len(returns) : i - Window < k /\ k <= i /\ IsFinite(returns[k].v)}

\* the positions whose window holds the 20 observations a deviation needs
Emitting == {i \in 1..Len(returns) : Cardinality(Observations(i)) >= MinPeriods}

\* the averaged rolling volatility: no value (NaN) when no window emits, zero
\* when every emitting window is constant, positive otherwise
AvgVolatility ==
    IF Emitting = {} THEN "nan"
    ELSE IF \A i \in Emitting : Cardinality({returns[k].v : k \in Observations(i)}) = 1
         THEN "zero"
    ELSE "positive"

\* C11: sharpe_ratio returns 0.0 on an empty series, on fewer than 20
\* observations, and when the averaged rolling volatility is zero or not
\* finite; in every other case, and only then, it returns the quotient of the
\* annualized mean excess return by the annualized averaged volatility.
C11_SharpeRatio ==
    AfterSh =>
        /\ Len(returns) = 0 => result.val = Zero
        /\ Len(returns) < MinPeriods => result.val = Zero
        /\ AvgVolatility \in {"zero", "nan"} => result.val = Zero
        /\ AvgVolatility = "positive" =>
               /\ result.val = SharpeQuotient(returns)
               /\ result.val # Zero
               /\ Len(returns) >= MinPeriods

\* the quotient is returned for a series of 20 to 29 observations of two values
C11_Witness ==
    /\ AfterSh
    /\ Len(returns) >= MinPeriods /\ Len(returns) < Window
    /\ AvgVolatility = "positive"
    /\ IsSymbolic(result.val)

(***************************************************************************)
(* Finiteness of the reported metrics.                                     *)
(***************************************************************************)
\* C12: with non-negative quantities, buy prices and closes (quantity 0 and
\* close 0 included) none of portfolio_value, invested_value, return_pct,
\* sharpe_ratio and max_drawdown returned by run_performance_module is NaN or
\* infinite.
C12_FiniteMetrics ==
    (AfterRun /\ result.kind = "returned") =>
        /\ IsFinite(result.val.portfolio_value)
        /\ IsFinite(result.val.invested_value)
        /\ IsFinite(result.val.return_pct)
        /\ IsFinite(result.val.sharpe_ratio)
        /\ IsFinite(result.val.max_drawdown)

(***************************************************************************)
(* Diversification module (src/app/diversification.py).  holdings maps a   *)
(* stock to its row, prices a stock to its current price, meta_map a stock *)
(* to its metadata record.  The whole body runs inside try / except        *)
(* Exception: an exception raised by a line becomes the record             *)
(* {"error": message}.                                                     *)
(***************************************************************************)
Myriad == 10000
Round4(x) == RoundTo(x, Myriad)
TopCount == 5
Unknown == "Unknown"
NoMeta == [k \in {} |-> Unknown]    \* the {} of meta_map.get(stock, {})

RECURSIVE SeqSum(_)
SeqSum(sq) == IF sq = << >> THEN Zero ELSE RAdd(Head(sq), SeqSum(Tail(sq)))

RECURSIVE SortAscending(_, _)
\* np.sort: the values w[s], s in S, in ascending order
SortAscending(S, w) ==
    IF S = {} THEN << >>
    ELSE LET s == CHOOSE x \in S : \A y \in S : RLe(w[x], w[y])
         IN  <<w[s]>> \o SortAscending(S \ {s}, w)

\* line 61: holdings[stock]["quantity"] raises KeyError for a row without quantity
MissingQuantity(h) == \E s \in DOMAIN h : "quantity" \notin DOMAIN h[s]

portfolio_values(h, p) == [s \in DOMAIN h |-> RMul(h[s].quantity, Get(p, s, Zero))]

total_value(pv) == SumOver(DOMAIN pv, pv)

\* mutant of weights: each value is divided by the largest value
weights_OfLargest(pv) ==
    LET top == SortAscending(DOMAIN pv, pv)[Cardinality(DOMAIN pv)]
    IN  [s \in DOMAIN pv |-> RDiv(pv[s], top)]

weights(pv) == [s \in DOMAIN pv |-> RDiv(pv[s], total_value(pv))]

\* mutant of hhi: the weights are not squared
hhi_Linear(w) == SumOver(DOMAIN w, w)

hhi(w) == SumOver(DOMAIN w, [s \in DOMAIN w |-> RMul(w[s], w[s])])

sorted_weights(w) == SortAscending(DOMAIN w, w)

cumulative(sw) == [i \in DOMAIN sw |-> SeqSum(SubSeq(sw, 1, i))]

\* mutant of gini: the final division by n is left out
gini_Undivided(sw) ==
    LET n == Len(sw)
    IN  IF n > 1
        THEN RSub(R(n + 1), RDiv(RMul(R(2), SeqSum(cumulative(sw))), cumulative(sw)[n]))
        ELSE Zero

\* line 79
gini(sw) ==
    LET n == Len(sw)
    IN  IF n > 1
        THEN RDiv(RSub(R(n + 1),
                       RDiv(RMul(R(2), SeqSum(cumulative(sw))), cumulative(sw)[n])),
                  R(n))
        ELSE Zero

\* mutant of top_5_concentration: the 5 smallest weights
top_5_concentration_Smallest(sw) ==
    SeqSum(SubSeq(sw, 1, IF Len(sw) < TopCount THEN Len(sw) ELSE TopCount))

\* line 82, sum(sorted_weights[::-1][:5])
top_5_concentration(sw) ==
    SeqSum(SubSeq(Reversed(sw), 1, IF Len(sw) < TopCount THEN Len(sw) ELSE TopCount))

\* mutant of CategoryOf: a stock without a metadata record has no category
CategoryOf_Skipped(m, s, field) ==
    IF s \in DOMAIN m THEN Get(m[s], field, Unknown) ELSE "None"

\* lines 87 and 94, meta_map.get(stock, {}).get(field, "Unknown")
CategoryOf(m, s, field) == Get(Get(m, s, NoMeta), field, Unknown)

\* the loops of lines 86-88 and 93-95: the weights summed per category
Allocation(w, m, field) ==
    [c \in {CategoryOf(m, s, field) : s \in DOMAIN w} |->
        SumOver({s \in DOMAIN w : CategoryOf(m, s, field) = c}, w)]

\* lines 89 and 96
AsPercentages(a) == [c \in DOMAIN a |-> Round2(RMul(a[c], R(Percent)))]

\* Python's max(0, x): x when x > 0 holds, 0 otherwise (also for NaN)
PyMax0(x) == IF RGt(x, Zero) THEN x ELSE Zero

\* line 100 divides by 1 - 1/n, which is 0.0 for n = 1: with Python floats the
\* division raises ZeroDivisionError, with numpy floats it gives NaN
ZeroDivision(n, num) == n = 1 /\ num = "python"

hhi_score(x, n) ==
    PyMax0(RMul(R(Percent),
                RSub(R(1), RDiv(RSub(x, Q(1, n)), RSub(R(1), Q(1, n))))))

gini_score(g) == RMul(R(Percent), RSub(R(1), g))

\* mutant of conc_score: the concentration itself is scored, not its complement
conc_score_OfShare(t) == PyMax0(RMul(R(Percent), t))

\* line 102
conc_score(t) == PyMax0(RMul(R(Percent), RSub(R(1), t)))

\* mutant of score: the three sub-scores weigh the same
score_EqualWeights(hs, gs, cs) ==
    Round2(RAdd(RAdd(RMul(Q(1, 3), hs), RMul(Q(1, 3), gs)), RMul(Q(1, 3), cs)))

\* line 103
score(hs, gs, cs) ==
    Round2(RAdd(RAdd(RMul(Q(2, 5), hs), RMul(Q(3, 10), gs)), RMul(Q(3, 10), cs)))

Message(exc) ==
    CASE exc = "KeyError" -> "'quantity'"
      [] exc = "ValueError" -> "Total portfolio value is zero. Cannot compute weights."
      [] exc = "ZeroDivisionError" -> "float division by zero"

\* the locals of the body, NoValue for those a raise left uncomputed
Locals(pv, tv, w, x, sw, g, t, sa, ms, hs, gs, cs) ==
    [portfolio_values |-> pv, total_value |-> tv, weights |-> w, hhi |-> x,
     sorted_weights |-> sw, gini |-> g, top_5_concentration |-> t,
     sector_allocation |-> sa, market_cap_split |-> ms,
     hhi_score |-> hs, gini_score |-> gs, conc_score |-> cs]

\* lines 59-112, the body of the try: the exception it raises ("none" when it
\* returns), the record it returns, and its locals
Body(h, m, p, num) ==
    LET U == NoValue IN
    IF MissingQuantity(h)
    THEN [exc |-> "KeyError", ret |-> U, locals |-> Locals(U, U, U, U, U, U, U, U, U, U, U, U)]
    ELSE
    LET pv == portfolio_values(h, p)
        tv == total_value(pv)
    IN  IF tv = Zero
        THEN [exc |-> "ValueError", ret |-> U,
              locals |-> Locals(pv, tv, U, U, U, U, U, U, U, U, U, U)]
        ELSE
        LET w == weights(pv)
            x == hhi(w)
            sw == sorted_weights(w)
            n == Len(sw)
            g == gini(sw)
            t == top_5_concentration(sw)
            sa == Allocation(w, m, "sector")
            ms == Allocation(w, m, "mcap")
        IN  IF ZeroDivision(n, num)
            THEN [exc |-> "ZeroDivisionError", ret |-> U,
                  locals |-> Locals(pv, tv, w, x, sw, g, t, sa, ms, U, U, U)]
            ELSE
            LET hs == hhi_score(x, n)
                gs == gini_score(g)
                cs == conc_score(t)
            IN  [exc |-> "none",
                 ret |-> [hhi_index |-> Round4(x),
                          gini_coefficient |-> Round4(g),
                          top_5_concentration |-> Round2(RMul(t, R(Percent))),
                          sector_allocation |-> AsPercentages(sa),
                          market_cap_split |-> AsPercentages(ms),
                          score |-> score(hs, gs, cs)],
                 locals |-> Locals(pv, tv, w, x, sw, g, t, sa, ms, hs, gs, cs)]

\* mutant of Caught: only the ValueError of line 67 is caught
Caught_ValueErrorOnly(exc) == exc = "ValueError"

\* line 114, except Exception
Caught(exc) == exc \in {"KeyError", "ValueError", "ZeroDivisionError"}

run_diversification_module(h, m, p, num) ==
    LET b == Body(h, m, p, num)
    IN  IF b.exc = "none" THEN [kind |-> "returned", val |-> b.ret, locals |-> b.locals]
        ELSE IF Caught(b.exc)
             THEN [kind |-> "returned", val |-> [error |-> Message(b.exc)],
                   locals |-> b.locals]
        ELSE [kind |-> "raised", val |-> NoValue, locals |-> b.locals]

(***************************************************************************)
(* SpecDiv: run_diversification_module on 0 to MaxHoldings holdings.  The  *)
(* first holding varies in quantity (absent, 0, 1, 2), in having a price   *)
(* and in its metadata; every other holding has quantity 1, a price in     *)
(* {0, 1, 2} (in {1, 2} from the fourth on) and fixed metadata (none for   *)
(* D, F, ...).  Quantities and prices are Python numbers or numpy scalars. *)
(***************************************************************************)
MaxHoldings == 6
Names == <<"A", "B", "C", "D", "E", "F", "G", "H">>
Stocks(n) == {Names[i] : i \in 1..n}

DivRows ==
    {[quantity |-> R(1)], [quantity |-> R(2), buy_price |-> R(1)],
     [quantity |-> Zero], [buy_price |-> R(1)]}
OtherRow == [quantity |-> R(1)]
DivPrices == {Zero, R(1), R(2)}
ZeroPriced == {"A", "B", "C"}    \* the stocks whose price may be 0
DivMeta ==
    {Absent, [industry |-> "Software"],
     [sector |-> "IT", industry |-> "Software"],
     [sector |-> "IT", industry |-> "Software", mcap |-> "Large"]}
OtherMeta ==
    [B |-> [sector |-> "Energy", industry |-> "Oil", mcap |-> "Mid"],
     C |-> [sector |-> "IT", industry |-> "Software", mcap |-> "Large"],
     E |-> [sector |-> "Energy", industry |-> "Oil", mcap |-> "Large"]]
NumberTypes == {"python", "numpy"}

InitDiv ==
    /\ pc = "start"
    /\ \E n \in 0..MaxHoldings, row \in DivRows, meta \in DivMeta, priced \in BOOLEAN :
        /\ holdings = [s \in Stocks(n) |-> IF s = "A" THEN row ELSE OtherRow]
        /\ prices \in [(IF priced THEN Stocks(n) ELSE Stocks(n) \ {"A"}) -> DivPrices]
        /\ \A s \in DOMAIN prices : prices[s] = Zero => s \in ZeroPriced
        /\ meta_map = [s \in {x \in Stocks(n) : x \in DOMAIN OtherMeta
                                                    \/ (x = "A" /\ meta # Absent)} |->
                            IF s = "A" THEN meta ELSE OtherMeta[s]]
    /\ numeric \in NumberTypes
    /\ bars = NoValue /\ quantity = NoValue /\ ohlc_map = NoValue
    /\ curve = NoValue /\ returns = NoValue
    /\ log = NoValue /\ cache = NoValue
    /\ result = NoValue /\ trace = NoValue /\ prev = NoValue

RunDiversificationModule ==
    /\ pc = "start"
    /\ LET r == run_diversification_module(holdings, meta_map, prices, numeric)
       IN  /\ result' = [kind |-> r.kind, val |-> r.val]
           /\ trace' = r.locals
    /\ pc' = "run_diversification_module"
    /\ UNCHANGED <<bars, quantity, holdings, ohlc_map, curve, returns, meta_map, prices,
                   numeric, prev, log, cache>>

NextDiv == RunDiversificationModule

SpecDiv == InitDiv /\ [][NextDiv]_vars

AfterDiv == pc = "run_diversification_module"
IsError == DOMAIN result.val = {"error"}
IsMetrics ==
    DOMAIN result.val = {"hhi_index", "gini_coefficient", "top_5_concentration",
                         "sector_allocation", "market_cap_split", "score"}

(***************************************************************************)
(* Properties of run_diversification_module.  The weights, the indices and *)
(* the sub-scores are locals of the module (trace); the record reports     *)
(* hhi_index and gini_coefficient rounded to 4 decimals, the percentages   *)
(* and the score rounded to 2.                                             *)
(***************************************************************************)
Holders == DOMAIN holdings
Size == Cardinality(Holders)
\* current value of one holding: quantity x current price, no price counting 0
Value(s) == RMul(holdings[s].quantity, IF s \in DOMAIN prices THEN prices[s] ELSE Zero)
Total == SumOver(Holders, [s \in Holders |-> Value(s)])
\* every row has a quantity and the total current value is not zero
Valued == (\A s \in Holders : "quantity" \in DOMAIN holdings[s]) /\ Total # Zero
AllEqual == \A s, t \in Holders : Value(s) = Value(t)

\* C13: whenever the total value is non-zero, each weight is quantity x current
\* price divided by the sum of quantity x current price over all holdings (a
\* holding without a price has weight 0), every weight lies in [0, 1], and the
\* weights of the holdings of strictly positive value sum to 1.
C13_Weights ==
    (AfterDiv /\ Valued) =>
        /\ DOMAIN trace.weights = Holders
        /\ \A s \in Holders :
            /\ trace.weights[s] = RDiv(Value(s), Total)
            /\ RLe(Zero, trace.weights[s]) /\ RLe(trace.weights[s], R(1))
            /\ s \notin DOMAIN prices => trace.weights[s] = Zero
        /\ SumOver({s \in Holders : RGt(Value(s), Zero)}, trace.weights) = R(1)

\* three holdings or more, one without a price, two of different positive weight
C13_Witness ==
    /\ AfterDiv /\ Valued /\ IsMetrics
    /\ Size >= 3
    /\ "A" \notin DOMAIN prices /\ trace.weights["A"] = Zero
    /\ \E s, t \in Holders : RLt(Zero, trace.weights[s]) /\ RLt(trace.weights[s], trace.weights[t])

\* C14: run_diversification_module never lets an exception escape: it returns
\* either the full metrics record or a record holding only 'error'; when the
\* total of quantity x price is zero (a single holding with a zero price, for
\* one) it returns the error record.
C14_NoExceptionEscapes ==
    AfterDiv =>
        /\ result.kind = "returned"
        /\ IsMetrics \/ IsError
        /\ ((\A s \in Holders : "quantity" \in DOMAIN holdings[s]) /\ Total = Zero) =>
               result.val = [error |-> Message("ValueError")]

\* a single holding with a zero price: the error record of the zero total
C14_Witness ==
    /\ AfterDiv
    /\ Holders = {"A"} /\ "quantity" \in DOMAIN holdings["A"]
    /\ RGt(holdings["A"].quantity, Zero)
    /\ "A" \in DOMAIN prices /\ prices["A"] = Zero
    /\ result = Returned([error |-> Message("ValueError")])

\* a row without a quantity: the KeyError of line 61 is returned as an error record
C14_KeyErrorCaught ==
    /\ AfterDiv /\ MissingQuantity(holdings) /\ Size >= 2
    /\ result = Returned([error |-> Message("KeyError")])

\* C15: for n > 0 holdings of non-zero total value, HHI, the sum of the squared
\* weights, satisfies 1/n <= HHI <= 1, and HHI = 1/n exactly when all n weights
\* are equal.
C15_HhiBounds ==
    (AfterDiv /\ Valued) =>
        /\ Size > 0
        /\ trace.hhi = SeqSum([i \in 1..Size |->
                                  RMul(trace.sorted_weights[i], trace.sorted_weights[i])])
        /\ RLe(Q(1, Size), trace.hhi) /\ RLe(trace.hhi, R(1))
        /\ trace.hhi = Q(1, Size) <=> AllEqual
        /\ IsMetrics => result.val.hhi_index = Round4(trace.hhi)

\* three holdings of equal value: HHI is 1/3, reported as 0.3333
C15_Witness ==
    /\ AfterDiv /\ Valued /\ IsMetrics
    /\ Size = 3 /\ AllEqual
    /\ trace.hhi = Q(1, 3)
    /\ result.val.hhi_index = Q(3333, 10000)

\* four holdings of unequal value: HHI lies strictly between 1/4 and 1
C15_Unequal ==
    /\ AfterDiv /\ Valued /\ IsMetrics
    /\ Size = 4 /\ ~AllEqual
    /\ RLt(Q(1, 4), trace.hhi) /\ RLt(trace.hhi, R(1))

\* C16: Gini = (n + 1 - 2 x (sum of the cumulative sums of the ascending-sorted
\* weights) / total) / n lies in [0, 1) for n > 1, is 0 when all weights are
\* equal, and is 0 when n <= 1.
C16_Gini ==
    (AfterDiv /\ Valued) =>
        LET sw == trace.sorted_weights
            \* the i-th smallest weight occurs in the cumulative sums i..n
            cums == SeqSum([i \in 1..Size |-> RMul(R(Size - i + 1), sw[i])])
            all == SeqSum(sw)
        IN  /\ \A i \in 1..(Size - 1) : RLe(sw[i], sw[i + 1])
            /\ Size > 1 =>
                  /\ trace.gini =
                        RDiv(RSub(R(Size + 1), RDiv(RMul(R(2), cums), all)), R(Size))
                  /\ RLe(Zero, trace.gini) /\ RLt(trace.gini, R(1))
            /\ AllEqual => trace.gini = Zero
            /\ Size <= 1 => trace.gini = Zero
            /\ IsMetrics => result.val.gini_coefficient = Round4(trace.gini)

\* two holdings, one of value zero: Gini is 1/2
C16_Witness ==
    /\ AfterDiv /\ Valued /\ IsMetrics
    /\ Size = 2 /\ (\E s \in Holders : Value(s) = Zero)
    /\ trace.gini = Q(1, 2)
    /\ result.val.gini_coefficient = Q(1, 2)

\* a single holding of positive value: Gini is 0
C16_Single ==
    /\ AfterDiv /\ Valued /\ Size = 1
    /\ trace.gini = Zero

\* the sum of the 5 largest weights, all of them when there are fewer than 5
TopFive ==
    SeqSum([i \in 1..(IF Size < TopCount THEN Size ELSE TopCount) |->
               trace.sorted_weights[Size - i + 1]])

\* C17 as stated, read on the record returned: top_5_concentration is the sum of
\* the 5 largest weights, at most 1, and 1 whenever n <= 5.
C17_ReportedFraction ==
    (AfterDiv /\ IsMetrics) =>
        /\ result.val.top_5_concentration = Round2(TopFive)
        /\ RLe(result.val.top_5_concentration, R(1))
        /\ Size <= TopCount => result.val.top_5_concentration = R(1)

\* C17, amended: the top-5 concentration the module computes (and scores) is the
\* sum of the 5 largest weights, all of them when there are fewer than 5; it is
\* at most 1 and equals the sum of all weights, 1, whenever n <= 5.  The
\* top_5_concentration field of the record reports it as a percentage, 100 times
\* the sum rounded to 2 decimals: at most 100, and 100 whenever n <= 5.
C17_TopFive ==
    (AfterDiv /\ Valued) =>
        /\ trace.top_5_concentration = TopFive
        /\ RLe(trace.top_5_concentration, R(1))
        /\ Size <= TopCount =>
              /\ trace.top_5_concentration = SeqSum(trace.sorted_weights)
              /\ trace.top_5_concentration = R(1)
        /\ IsMetrics =>
              /\ result.val.top_5_concentration = Round2(RMul(R(Percent), TopFive))
              /\ RLe(result.val.top_5_concentration, R(Percent))
              /\ Size <= TopCount => result.val.top_5_concentration = R(Percent)

\* six holdings of positive value: the smallest is left out of the top 5
C17_Witness ==
    /\ AfterDiv /\ Valued /\ IsMetrics
    /\ Size = TopCount + 1 /\ \A s \in Holders : RGt(Value(s), Zero)
    /\ RLt(trace.top_5_concentration, R(1))
    /\ RLt(result.val.top_5_concentration, R(Percent))

\* the category of a holding: the field of its metadata record, "Unknown" when
\* it has no record or the record lacks the field
Category(s, field) ==
    IF s \in DOMAIN meta_map /\ field \in DOMAIN meta_map[s] THEN meta_map[s][field]
    ELSE "Unknown"
Categories(field) == {Category(s, field) : s \in Holders}

\* the map is the one of the claim: one entry per category, the sum of the
\* weights of the category's holdings, reported as a percentage of 2 decimals
AllocatedBy(field, computed, reported) ==
    /\ DOMAIN computed = Categories(field)
    /\ \A c \in Categories(field) :
          computed[c] = SumOver({s \in Holders : Category(s, field) = c},
                                [s \in Holders |-> RDiv(Value(s), Total)])
    /\ SumOver(Categories(field), [c \in Categories(field) |-> RMul(R(100), computed[c])])
          = R(100)
    /\ IsMetrics =>
          /\ DOMAIN reported = Categories(field)
          /\ \A c \in Categories(field) : reported[c] = Round2(RMul(R(100), computed[c]))

\* C18: sector_allocation and market_cap_split map every category to 100 x the
\* sum of the weights of the holdings in it; a holding with no metadata record,
\* or whose record lacks the sector / mcap field, is counted under "Unknown";
\* every holding is counted in exactly one category of each map, so the
\* unrounded percentages of each map sum to 100.
C18_Allocations ==
    (AfterDiv /\ Valued) =>
        /\ AllocatedBy("sector", trace.sector_allocation,
                       IF IsMetrics THEN result.val.sector_allocation ELSE NoValue)
        /\ AllocatedBy("mcap", trace.market_cap_split,
                       IF IsMetrics THEN result.val.market_cap_split ELSE NoValue)

\* A has a sector and no mcap, D has no record: both count under "Unknown",
\* beside the named categories
C18_Witness ==
    /\ AfterDiv /\ Valued /\ IsMetrics
    /\ {"A", "B", "D"} \subseteq Holders /\ \A s \in Holders : RGt(Value(s), Zero)
    /\ "A" \in DOMAIN meta_map /\ DOMAIN meta_map["A"] = {"sector", "industry"}
    /\ "D" \notin DOMAIN meta_map
    /\ DOMAIN result.val.sector_allocation = {"IT", "Energy", "Unknown"}
    /\ DOMAIN result.val.market_cap_split = {"Large", "Mid", "Unknown"}
    /\ RGt(result.val.market_cap_split["Unknown"], result.val.sector_allocation["Unknown"])

\* C19: whenever a score is returned it equals 0.4 x HHI-score + 0.3 x
\* Gini-score + 0.3 x concentration-score, with HHI-score = max(0, 100 x (1 -
\* (HHI - 1/n) / (1 - 1/n))), Gini-score = 100 x (1 - gini) and
\* concentration-score = max(0, 100 x (1 - top5)), and lies in 0..100.
C19_Score ==
    (AfterDiv /\ IsMetrics) =>
        LET n == Size
            hs == RMax(Zero, RMul(R(100), RSub(R(1), RDiv(RSub(trace.hhi, Q(1, n)),
                                                          RSub(R(1), Q(1, n))))))
            gs == RMul(R(100), RSub(R(1), trace.gini))
            cs == RMax(Zero, RMul(R(100), RSub(R(1), trace.top_5_concentration)))
            exact == RAdd(RAdd(RMul(Q(4, 10), hs), RMul(Q(3, 10), gs)), RMul(Q(3, 10), cs))
        IN  /\ trace.hhi_score = hs /\ trace.gini_score = gs /\ trace.conc_score = cs
            /\ result.val.score = Round2(exact)
            /\ RLe(Zero, exact) /\ RLe(exact, R(100))
            /\ RLe(Zero, result.val.score) /\ RLe(result.val.score, R(100))

\* six holdings of equal value: sub-scores 100, 100 and 100/6, score 75
C19_Witness ==
    /\ AfterDiv /\ IsMetrics
    /\ Size = 6 /\ AllEqual
    /\ trace.hhi_score = R(100) /\ trace.gini_score = R(100)
    /\ trace.conc_score = Q(100, 6)
    /\ result.val.score = R(75)

\* six holdings of unequal value: every sub-score strictly inside 0..100
C19_Inside ==
    /\ AfterDiv /\ IsMetrics /\ Size = 6
    /\ \A v \in {trace.hhi_score, trace.gini_score, trace.conc_score} :
          RLt(Zero, v) /\ RLt(v, R(100))

\* one holding held in numpy numbers: line 100 is max(0, NaN) = 0, score 30
C19_SingleNumpy ==
    /\ AfterDiv /\ IsMetrics /\ Size = 1
    /\ trace.hhi_score = Zero /\ result.val.score = R(30)

\* C20: for a portfolio of exactly one holding of strictly positive current
\* value, run_diversification_module returns a metrics record, not an error
\* record, with gini_coefficient 0 and hhi_index 1.
C20_SingleHolding ==
    (/\ AfterDiv /\ Size = 1
     /\ \A s \in Holders : "quantity" \in DOMAIN holdings[s] /\ RGt(Value(s), Zero)) =>
        /\ IsMetrics
        /\ result.val.gini_coefficient = Zero
        /\ result.val.hhi_index = R(1)

\* what the module returns for such a portfolio held in Python numbers: the
\* error record of the division by 1 - 1/n = 0.0 in line 100
C20_ErrorRecord ==
    /\ AfterDiv /\ Size = 1 /\ Valued /\ numeric = "python"
    /\ trace.hhi = R(1) /\ trace.gini = Zero
    /\ result = Returned([error |-> Message("ZeroDivisionError")])

(***************************************************************************)
(* DhanClient.get_ohlc and get_intraday (src/app/dhan_client.py): contract *)
(* resolution against the instrument master, then a loop of at most three  *)
(* HTTP requests, then the conversion of the parsed body into candles.     *)
(* The two methods differ in the interval test of get_intraday, the URL    *)
(* and the length of the sleeps.  A response is what requests.post gives:  *)
(* an exception (net FALSE) or a status, a body that carries the DH-906    *)
(* error code or not, and what r.json() makes of the body.  The body is    *)
(* only read past raise_for_status, so it varies only for responses that   *)
(* get there.                                                              *)
(***************************************************************************)
Attempts == 3
RateLimited == 429
ErrorStatus == 400
Statuses == {200, RateLimited, ErrorStatus, 503}

\* what r.json() gives: a ValueError, a list, a dict without 'open', a dict
\* that lacks one of the six arrays, a dict with a null array, a dict of two
\* candles, a dict of two candles the first of which does not convert
Bodies == {"unparsable", "list", "no_open", "short", "null", "candles", "bad_candle"}

NoResponse == [net |-> FALSE, status |-> 0, dh906 |-> FALSE, body |-> "none"]
Responses ==
    {NoResponse}
    \cup {[net |-> TRUE, status |-> s, dh906 |-> d, body |-> "error"] :
            s \in Statuses \ {200}, d \in BOOLEAN}
    \cup {[net |-> TRUE, status |-> 200, dh906 |-> TRUE, body |-> "error"]}
    \cup {[net |-> TRUE, status |-> 200, dh906 |-> FALSE, body |-> b] : b \in Bodies}

\* mutant of Outcome: an accepted response does not leave the loop
Outcome_NoBreak(r) ==
    IF ~r.net THEN "except"
    ELSE IF r.dh906 THEN "except"
    ELSE IF r.status = RateLimited THEN "continue"
    ELSE IF r.status >= ErrorStatus THEN "except"
    ELSE IF r.body = "unparsable" THEN "except"
    ELSE "continue"

\* lines 214-231 (301-318): how one pass of the loop body ends
Outcome(r) ==
    IF ~r.net THEN "except"                         \* requests.post raises
    ELSE IF r.dh906 THEN "except"                   \* RuntimeError of line 218
    ELSE IF r.status = RateLimited THEN "continue"  \* line 220
    ELSE IF r.status >= ErrorStatus THEN "except"   \* raise_for_status
    ELSE IF r.body = "unparsable" THEN "except"     \* r.json() raises
    ELSE "break"

\* lines 237-252: the candles of a well-formed body, a candle whose conversion
\* raises being skipped
Candles(b) ==
    IF b = "candles" THEN <<Bar(1, R(1)), Bar(2, R(2))>>
    ELSE IF b = "bad_candle" THEN <<Bar(2, R(2))>>
    ELSE << >>

Methods == {"get_ohlc", "get_intraday"}

\* lines 187-196 (264-276): the interval test of get_intraday, then the contract
\* resolution, whose failure returns the empty list
ResolveContract ==
    /\ pc = "start"
    /\ IF trace.method = "get_intraday" /\ ~trace.interval_ok
       THEN /\ result' = Raised
            /\ trace' = [trace EXCEPT !.exc = "ValueError"]
            /\ pc' = "done"
       ELSE IF ~trace.resolvable
       THEN /\ result' = Returned(<< >>)
            /\ pc' = "done"
            /\ UNCHANGED trace
       ELSE /\ pc' = "request"
            /\ UNCHANGED <<result, trace>>
    /\ UNCHANGED <<bars, quantity, holdings, ohlc_map, curve, returns, meta_map, prices,
                   numeric, log, cache, prev>>

\* lines 212-231 (299-318): one pass of the loop: the request, its response r,
\* and what the body of the loop does with it
Request(r) ==
    /\ pc = "request"
    /\ trace.attempt < Attempts
    /\ log' = Append(log, r)
    /\ LET o == Outcome(r) IN
       IF o = "break"
       THEN /\ trace' = [trace EXCEPT !.data = r.body]
            /\ pc' = "after_loop"
            /\ UNCHANGED result
       ELSE IF o = "continue"
       THEN /\ trace' = [trace EXCEPT !.attempt = @ + 1]
            /\ pc' = IF trace.attempt + 1 = Attempts THEN "after_loop" ELSE "request"
            /\ UNCHANGED result
       ELSE IF trace.attempt = Attempts - 1
       THEN /\ result' = Returned(<< >>)
            /\ pc' = "done"
            /\ UNCHANGED trace
       ELSE /\ trace' = [trace EXCEPT !.attempt = @ + 1]
            /\ pc' = "request"
            /\ UNCHANGED result
    /\ UNCHANGED <<bars, quantity, holdings, ohlc_map, curve, returns, meta_map, prices,
                   numeric, cache, prev>>

\* lines 233-252 (320-339): data is read after the loop; it is unbound when the
\* loop ran out on a rate-limited response (UnboundLocalError), and len() of a
\* null array raises TypeError
AfterLoop ==
    /\ pc = "after_loop"
    /\ IF trace.data = "unbound"
       THEN result' = Raised /\ trace' = [trace EXCEPT !.exc = "UnboundLocalError"]
       ELSE IF trace.data \in {"list", "no_open"}
       THEN result' = Returned(<< >>) /\ UNCHANGED trace
       ELSE IF trace.data = "null"
       THEN result' = Raised /\ trace' = [trace EXCEPT !.exc = "TypeError"]
       ELSE result' = Returned(Candles(trace.data)) /\ UNCHANGED trace
    /\ pc' = "done"
    /\ UNCHANGED <<bars, quantity, holdings, ohlc_map, curve, returns, meta_map, prices,
                   numeric, log, cache, prev>>

(***************************************************************************)
(* SpecOhlc: one call of get_ohlc or get_intraday against every sequence   *)
(* of responses.                                                           *)
(***************************************************************************)
InitOhlc ==
    /\ pc = "start"
    /\ \E m \in Methods, i, c \in BOOLEAN :
        /\ m = "get_ohlc" => i
        /\ trace = [method |-> m, interval_ok |-> i, resolvable |-> c,
                    attempt |-> 0, data |-> "unbound", exc |-> "none"]
    /\ log = << >>
    /\ bars = NoValue /\ quantity = NoValue /\ holdings = NoValue /\ ohlc_map = NoValue
    /\ curve = NoValue /\ returns = NoValue /\ meta_map = NoValue /\ prices = NoValue
    /\ numeric = NoValue /\ cache = NoValue
    /\ result = NoValue /\ prev = NoValue

NextOhlc == ResolveContract \/ (\E r \in Responses : Request(r)) \/ AfterLoop

SpecOhlc == InitOhlc /\ [][NextOhlc]_vars

(***************************************************************************)
(* Properties of get_ohlc and get_intraday.                                *)
(***************************************************************************)
\* the attempt was rate-limited
Limited(r) == r.net /\ ~r.dh906 /\ r.status = 429
\* the attempt failed: network exception, DH-906 body, HTTP error status or
\* unparsable JSON
Failed(r) ==
    \/ ~r.net
    \/ r.dh906
    \/ (r.status >= 400 /\ r.status # 429)
    \/ (r.status < 400 /\ r.body = "unparsable")
\* the response is accepted
Accepted(r) == r.net /\ ~r.dh906 /\ r.status # 429 /\ r.status < 400 /\ r.body # "unparsable"
Entered == trace.method = "get_ohlc" \/ trace.interval_ok

\* C21: get_ohlc (and get_intraday once the interval is valid) returns a list
\* and never raises, whatever the responses; when all three attempts fail, by
\* rate-limit, HTTP error status, DH-906 body, network exception or unparsable
\* JSON in any combination, it returns the empty list.
C21_NeverRaises ==
    (pc = "done" /\ Entered) =>
        /\ result.kind = "returned"
        /\ (Len(log) = 3 /\ \A k \in 1..3 : Limited(log[k]) \/ Failed(log[k])) =>
               result.val = << >>

\* three rate-limited attempts: the loop ends with data unbound and line 233
\* raises UnboundLocalError
C21_UnboundData ==
    /\ pc = "done" /\ trace.method = "get_ohlc"
    /\ Len(log) = 3 /\ \A k \in 1..3 : Limited(log[k])
    /\ result = Raised /\ trace.exc = "UnboundLocalError"

\* when the third attempt fails otherwise than by rate-limit the list is empty
C21_EmptyOnFailure ==
    (/\ pc = "done" /\ Entered
     /\ Len(log) = 3 /\ \A k \in 1..3 : Limited(log[k]) \/ Failed(log[k])
     /\ Failed(log[3])) =>
        result = Returned(<< >>)

\* C22: one call of get_ohlc issues at most 3 HTTP requests; request k+1 is
\* issued only after request k was rate-limited or failed; no request is issued
\* after the first accepted response; and no request at all is issued when the
\* contract resolution fails (the call returns the empty list).
C22_Requests ==
    /\ Len(log) <= 3
    /\ \A k \in 1..(Len(log) - 1) : (Limited(log[k]) \/ Failed(log[k])) /\ ~Accepted(log[k])
    /\ (\E k \in 1..Len(log) : Accepted(log[k])) => pc \in {"after_loop", "done"}
    /\ (Entered /\ ~trace.resolvable) =>
          /\ log = << >>
          /\ pc = "done" => result = Returned(<< >>)

\* a rate-limited request, a failed one, then an accepted one: three requests
\* and the candles of the third
C22_Witness ==
    /\ pc = "done" /\ trace.method = "get_ohlc"
    /\ Len(log) = 3
    /\ Limited(log[1]) /\ Failed(log[2]) /\ Accepted(log[3])
    /\ result.kind = "returned" /\ Len(result.val) = 2

\* the contract resolution failed: the empty list and no request
C22_Unresolved ==
    /\ pc = "done" /\ trace.method = "get_ohlc" /\ ~trace.resolvable
    /\ log = << >> /\ result = Returned(<< >>)

(***************************************************************************)
(* score_portfolio (src/app/main.py).  The endpoint resolves the holding   *)
(* keys, fetches the bars, runs the two modules, asks for the goal         *)
(* alignment and combines the scores.  Its collaborators answer as they    *)
(* like: lookup.get_security_id (an id, or None), client.get_ohlc (raises, *)
(* an empty list, candles), lookup.get_meta (a record), analyze_goal (a    *)
(* record, None, raises).  Every call made is appended to log with what it *)
(* returned.                                                               *)
(***************************************************************************)
\* the keys a payload may hold, in the order the payload lists them
Keys == <<"13188", "TCS", "ACME">>
\* str.isdigit() on the keys of the model
IsDigit(key) == key \in {"13188"}
PayloadRows ==
    [k \in Range(Keys) |->
        IF k = "13188" THEN [quantity |-> R(2), buy_price |-> R(1)]
        ELSE IF k = "TCS" THEN [quantity |-> R(1), buy_price |-> R(2)]
        ELSE [quantity |-> R(1), buy_price |-> Q(1, 2)]]

\* the keys of Keys that are in S, in order
KeysIn(S) == SelectSeq(Keys, LAMBDA k : k \in S)

Call(name, arg, ret) == [call |-> name, arg |-> arg, ret |-> ret]

\* what get_security_id may return for a key: an id, or None (the empty string,
\* which `if sid` treats alike)
Lookups(key) == {"", IF key = "TCS" THEN "11536" ELSE "2885"}

\* lines 50-55: the security id of a key, found[key] being the lookup's answer
SecurityId(key, found) == IF IsDigit(key) THEN key ELSE found[key]

\* mutant of Missing: only the first unresolved key is reported
Missing_FirstOnly(S, found) ==
    LET all == KeysIn({k \in S : ~IsDigit(k) /\ found[k] = ""})
    IN  IF all = << >> THEN << >> ELSE <<Head(all)>>

\* lines 46-57: the keys that are not all-digit and that the lookup did not find
Missing(S, found) == KeysIn({k \in S : ~IsDigit(k) /\ found[k] = ""})

\* what client.get_ohlc may do for one security id
Fetches ==
    {[kind |-> "raises", rows |-> << >>], [kind |-> "empty", rows |-> << >>],
     [kind |-> "candles", rows |-> <<Bar(1, R(1)), Bar(2, R(2))>>],
     [kind |-> "candles", rows |-> <<Bar(1, R(2)), Bar(2, R(1))>>],
     [kind |-> "candles", rows |-> <<Bar(1, R(1)), Bar(1, R(2))>>]}

\* what lookup.get_meta may return
UnknownMeta == [sector |-> "Unknown", industry |-> "Unknown", mcap |-> "Unknown"]
Metas == {UnknownMeta, [sector |-> "IT", industry |-> "Software", mcap |-> "Large"]}

\* what analyze_goal may do: its record (perplexity_client.py line 36), nothing,
\* or an exception
GoalAnswers ==
    {[kind |-> "returns", val |-> [explanation |-> "text", score |-> Q(7, 10)]],
     [kind |-> "none", val |-> NoValue],
     [kind |-> "raises", val |-> NoValue]}

\* lines 107-114
GoalAlign(answer) ==
    IF answer.kind = "returns" THEN answer.val
    ELSE IF answer.kind = "none" THEN [explanation |-> "no data", score |-> Q(1, 2)]
    ELSE [explanation |-> "analysis failed", score |-> Q(1, 2)]

\* mutant of valid_holdings: every holding is kept
valid_holdings_All(h, o) == h

\* line 84: the holdings whose table is not empty
valid_holdings(h, o) ==
    [s \in {x \in DOMAIN o : o[x].rows # << >>} |-> h[s]]

\* lines 92-95: the close of the last row of each non-empty table
latest_prices(o) ==
    [s \in {x \in DOMAIN o : o[x].rows # << >>} |-> o[s].rows[Len(o[s].rows)].close]

DefaultDivScore == 50

\* mutant of final_score: return and diversification weigh the same
final_score_EvenWeights(perf, div, goal_align) ==
    Round2(RAdd(RAdd(RMul(Q(2, 5), Get(perf, "return_pct", Zero)),
                     RMul(Q(2, 5), Get(div, "score", R(DefaultDivScore)))),
                RMul(Q(1, 5), RMul(Get(goal_align, "score", Q(1, 2)), R(Percent)))))

\* lines 117-123
final_score(perf, div, goal_align) ==
    Round2(RAdd(RAdd(RMul(Q(1, 2), Get(perf, "return_pct", Zero)),
                     RMul(Q(3, 10), Get(div, "score", R(DefaultDivScore)))),
                RMul(Q(1, 5), RMul(Get(goal_align, "score", Q(1, 2)), R(Percent)))))

\* the locals of score_portfolio, NoValue until assigned
ScoreLocals ==
    [security_map |-> NoValue, missing |-> NoValue, valid_holdings |-> NoValue,
     perf |-> NoValue, div |-> NoValue, goal_align |-> NoValue, final_score |-> NoValue]

\* lines 39-60: the empty payload, then the resolution of every key
ResolveKeys ==
    /\ pc = "start"
    /\ IF DOMAIN holdings = {}
       THEN /\ result' = Returned([error |-> "No holdings provided"])
            /\ pc' = "done"
            /\ UNCHANGED <<log, trace>>
       ELSE \E found \in [{k \in DOMAIN holdings : ~IsDigit(k)} -> {"", "11536", "2885"}] :
            /\ \A k \in DOMAIN found : found[k] \in Lookups(k)
            /\ LET asked == KeysIn(DOMAIN found)
                   missing == Missing(DOMAIN holdings, found)
               IN  /\ log' = log \o [i \in 1..Len(asked) |->
                                       Call("get_security_id", asked[i], found[asked[i]])]
                   /\ trace' = [trace EXCEPT
                                  !.security_map =
                                      [k \in {x \in DOMAIN holdings : SecurityId(x, found) # ""} |->
                                          SecurityId(k, found)],
                                  !.missing = missing]
                   /\ IF missing # << >>
                      THEN /\ result' = Returned([error |-> "Could not find security ids",
                                                  missing |-> missing])
                           /\ pc' = "done"
                      ELSE /\ pc' = "fetch"
                           /\ UNCHANGED result
    /\ UNCHANGED <<bars, quantity, holdings, ohlc_map, curve, returns, meta_map, prices,
                   numeric, cache, prev>>

\* lines 62-86: one get_ohlc per resolved key, a raise counting as an empty
\* list; the table of each; the holdings with data
FetchOhlc ==
    /\ pc = "fetch"
    /\ \E fetched \in [DOMAIN trace.security_map -> Fetches] :
        LET labels == KeysIn(DOMAIN trace.security_map)
            o == [s \in DOMAIN fetched |-> Frame(TRUE, TRUE, fetched[s].rows)]
            valid == valid_holdings(holdings, o)
        IN  /\ log' = log \o [i \in 1..Len(labels) |->
                                Call("get_ohlc", trace.security_map[labels[i]],
                                     fetched[labels[i]].kind)]
            /\ ohlc_map' = o
            /\ trace' = [trace EXCEPT !.valid_holdings = valid]
            /\ IF DOMAIN valid = {}
               THEN /\ result' = Returned([error |-> "No OHLC data available for any holding"])
                    /\ pc' = "done"
               ELSE /\ pc' = "perf"
                    /\ UNCHANGED result
    /\ UNCHANGED <<bars, quantity, holdings, curve, returns, meta_map, prices,
                   numeric, cache, prev>>

\* lines 89-95: the performance module on the holdings with data, and the
\* latest prices
RunPerformance ==
    /\ pc = "perf"
    /\ \E r \in run_performance_module(trace.valid_holdings, ohlc_map) :
        /\ log' = Append(log, Call("run_performance_module", "", r.kind))
        /\ IF r.kind = "raised"
           THEN /\ result' = Raised
                /\ pc' = "done"
                /\ UNCHANGED <<trace, prices>>
           ELSE /\ trace' = [trace EXCEPT !.perf = r.val]
                /\ prices' = latest_prices(ohlc_map)
                /\ pc' = "meta"
                /\ UNCHANGED result
    /\ UNCHANGED <<bars, quantity, holdings, ohlc_map, curve, returns, meta_map,
                   numeric, cache, prev>>

\* lines 98-103: one get_meta per resolved key, then the diversification module
\* on the holdings with data (Python numbers: JSON quantities, float() prices)
RunDiversification ==
    /\ pc = "meta"
    /\ \E metas \in [DOMAIN trace.security_map -> Metas] :
        LET labels == KeysIn(DOMAIN trace.security_map)
            r == run_diversification_module(trace.valid_holdings, metas, prices, "python")
        IN  /\ log' = (log \o [i \in 1..Len(labels) |->
                                 Call("get_meta", trace.security_map[labels[i]],
                                      metas[labels[i]].sector)])
                      \o <<Call("run_diversification_module", "", r.kind)>>
            /\ meta_map' = metas
            /\ trace' = [trace EXCEPT !.div = r.val]
    /\ pc' = "goal"
    /\ UNCHANGED <<bars, quantity, holdings, ohlc_map, curve, returns, prices,
                   numeric, cache, result, prev>>

\* lines 106-130: the goal alignment, the final score and the response
GoalAndScore ==
    /\ pc = "goal"
    /\ \E answer \in GoalAnswers :
        LET ga == GoalAlign(answer)
            fs == final_score(trace.perf, trace.div, ga)
        IN  /\ log' = Append(log, Call("analyze_goal", "", answer.kind))
            /\ trace' = [trace EXCEPT !.goal_align = ga, !.final_score = fs]
            /\ result' = Returned([performance |-> trace.perf, diversification |-> trace.div,
                                   goal_alignment |-> ga, final_score |-> fs])
    /\ pc' = "done"
    /\ UNCHANGED <<bars, quantity, holdings, ohlc_map, curve, returns, meta_map, prices,
                   numeric, cache, prev>>

(***************************************************************************)
(* SpecScore: one request to score_portfolio, for every payload over the   *)
(* keys of the model and every answer of the collaborators.                *)
(***************************************************************************)
InitScore ==
    /\ pc = "start"
    /\ \E S \in SUBSET Range(Keys) : holdings = [k \in S |-> PayloadRows[k]]
    /\ log = << >>
    /\ trace = ScoreLocals
    /\ bars = NoValue /\ quantity = NoValue /\ ohlc_map = NoValue
    /\ curve = NoValue /\ returns = NoValue /\ meta_map = NoValue /\ prices = NoValue
    /\ numeric = NoValue /\ cache = NoValue
    /\ result = NoValue /\ prev = NoValue

NextScore ==
    ResolveKeys \/ FetchOhlc \/ RunPerformance \/ RunDiversification \/ GoalAndScore

SpecScore == InitScore /\ [][NextScore]_vars

(***************************************************************************)
(* Properties of score_portfolio, read on the log of the calls made.       *)
(***************************************************************************)
Entries(name) == {k \in 1..Len(log) : log[k].call = name}
OtherEntries == {k \in 1..Len(log) : log[k].call # "get_security_id"}
\* the keys the lookup was asked for and did not find
Unresolved ==
    {key \in DOMAIN holdings :
        \E k \in Entries("get_security_id") : log[k].arg = key /\ log[k].ret = ""}
\* the security id of a key: the key itself when all-digit, else the lookup's answer
ResolvedId(key) ==
    IF IsDigit(key) THEN key
    ELSE LET k == CHOOSE j \in Entries("get_security_id") : log[j].arg = key IN log[k].ret

\* C23: score_portfolio resolves every holding key before fetching any price
\* data: an all-digit key is used as the security id without lookup, any other
\* key is looked up; if at least one key cannot be resolved the endpoint returns
\* the error 'Could not find security ids' listing every unresolved key, and
\* makes no OHLC fetch, no metadata lookup, no performance or diversification
\* computation and no goal-alignment call.
C23_ResolveBeforeFetch ==
    /\ \A k \in Entries("get_security_id") :
          /\ ~IsDigit(log[k].arg) /\ log[k].arg \in DOMAIN holdings
          /\ \A j \in OtherEntries : k < j
    /\ (pc # "start" /\ DOMAIN holdings # {}) =>
          \A key \in DOMAIN holdings :
              Cardinality({k \in Entries("get_security_id") : log[k].arg = key})
                  = IF IsDigit(key) THEN 0 ELSE 1
    /\ OtherEntries # {} => Unresolved = {}
    /\ \A k \in Entries("get_ohlc") :
          \E key \in DOMAIN holdings : log[k].arg = ResolvedId(key)
    /\ (pc = "done" /\ Unresolved # {}) =>
          /\ result = Returned([error |-> "Could not find security ids",
                                missing |-> KeysIn(Unresolved)])
          /\ OtherEntries = {}

\* three keys, the two that are not all-digit unresolved: both are listed and
\* nothing but the two lookups was called
C23_Witness ==
    /\ pc = "done" /\ DOMAIN holdings = {"13188", "TCS", "ACME"}
    /\ Unresolved = {"TCS", "ACME"}
    /\ result.val.missing = <<"TCS", "ACME">>
    /\ Len(log) = 2

\* every key resolved: the all-digit key is fetched under its own id, the other
\* under the id the lookup gave
C23_Fetched ==
    /\ pc = "fetch" /\ DOMAIN holdings = {"13188", "TCS"}
    /\ trace.security_map = [k \in {"13188", "TCS"} |-> IF k = "TCS" THEN "11536" ELSE k]

\* the keys whose fetch returned candles (a raise or an empty list gives an
\* empty table)
WithData ==
    {key \in DOMAIN holdings :
        \E k \in Entries("get_ohlc") : log[k].arg = ResolvedId(key) /\ log[k].ret = "candles"}
Fetched == Entries("get_ohlc") # {} \/ pc \in {"perf", "meta", "goal"}
ModuleEntries ==
    Entries("run_performance_module") \cup Entries("run_diversification_module")
        \cup Entries("analyze_goal")

\* C24: score_portfolio passes to the performance and diversification modules
\* only the holdings whose fetched table is non-empty (a fetch that raises
\* counts as empty), so a holding without price data contributes neither to
\* invested_value nor to any weight; when every holding is without data it
\* returns the error 'No OHLC data available for any holding' and runs neither
\* module nor the goal-alignment call.
C24_OnlyHoldingsWithData ==
    Fetched =>
        /\ trace.valid_holdings = [s \in WithData |-> holdings[s]]
        /\ \A s \in DOMAIN holdings \ WithData : ohlc_map[s].rows = << >>
        /\ trace.perf # NoValue =>
              trace.perf.invested_value =
                  Round2(SumOver(WithData,
                                 [s \in WithData |->
                                     RMul(holdings[s].quantity, holdings[s].buy_price)]))
        /\ (trace.div # NoValue /\ "error" \notin DOMAIN trace.div) =>
              DOMAIN trace.div.sector_allocation \subseteq
                  {meta_map[s].sector : s \in WithData}
        /\ DOMAIN prices \subseteq WithData
        /\ WithData = {} =>
              /\ pc = "done"
              /\ result = Returned([error |-> "No OHLC data available for any holding"])
              /\ ModuleEntries = {}

\* three holdings, one fetch raising and one empty: only the third is scored,
\* its cost 2 x 1 the invested value
C24_Witness ==
    /\ pc = "done" /\ DOMAIN holdings = {"13188", "TCS", "ACME"}
    /\ WithData = {"13188"}
    /\ \E k \in Entries("get_ohlc") : log[k].ret = "raises"
    /\ \E k \in Entries("get_ohlc") : log[k].ret = "empty"
    /\ result.kind = "returned"
    /\ result.val.performance.invested_value = R(2)

\* no holding has data: the error, after the fetches only
C24_NoData ==
    /\ pc = "done" /\ DOMAIN holdings = {"13188", "TCS"}
    /\ Entries("get_ohlc") # {} /\ WithData = {}
    /\ result = Returned([error |-> "No OHLC data available for any holding"])

Scored == pc = "done" /\ Entries("analyze_goal") # {}

\* C25: whenever score_portfolio reaches the scoring step, final_score =
\* round(0.5 x return_pct + 0.3 x diversification score + 0.2 x 100 x goal
\* score, 2), where the diversification score is 50 when the diversification
\* module returned an error record and the goal score is 0.5 when the
\* goal-alignment call raises or returns nothing; a failure of diversification
\* or goal alignment never turns the response into an error.
C25_FinalScore ==
    /\ Scored =>
          LET r == result.val
              answer == log[Len(log)].ret
              ds == IF "error" \in DOMAIN r.diversification THEN R(50)
                    ELSE r.diversification.score
              gs == IF answer \in {"raises", "none"} THEN Q(1, 2)
                    ELSE r.goal_alignment.score
          IN  /\ result.kind = "returned"
              /\ DOMAIN r = {"performance", "diversification", "goal_alignment", "final_score"}
              /\ r.final_score =
                    Round2(RAdd(RAdd(RMul(Q(5, 10), r.performance.return_pct),
                                     RMul(Q(3, 10), ds)),
                                RMul(Q(2, 10), RMul(R(100), gs))))
    /\ (pc = "done" /\ Entries("run_diversification_module") # {}) => Scored

\* one holding with data, whose value doubles: the diversification module
\* returns its error record, the goal call raises, and the final score is
\* 0.5 x 100 + 0.3 x 50 + 0.2 x 50 = 75
C25_Witness ==
    /\ Scored /\ DOMAIN trace.valid_holdings = {"13188"}
    /\ "error" \in DOMAIN result.val.diversification
    /\ log[Len(log)].ret = "raises"
    /\ result.val.performance.return_pct = R(100)
    /\ result.val.final_score = R(75)

\* both collaborators answer: a diversification score and the goal score 0.7
C25_BothAnswer ==
    /\ Scored
    /\ "score" \in DOMAIN result.val.diversification
    /\ log[Len(log)].ret = "returns"
    /\ result.val.goal_alignment.score = Q(7, 10)

\* ---------------------------------------------------------------------------
\* DhanInstrumentLookup.get_meta (dhan_instrument_lookup.py lines 200-272)
\* ---------------------------------------------------------------------------

MaxCalls == 3    \* calls of get_meta on one DhanInstrumentLookup object

\* market capitalisations are counted in units of 1e9, so that the thresholds
\* 5e12 and 5e11 of lines 234 and 236 are 5000 and 500
LargeCap == 5000
MidCap == 500

\* rows of self.df by SECURITY_ID: SM_SYMBOL_NAME and TRADING_SYMBOL, "" where
\* the master had no value (fillna(""), lines 121-122)
Master ==
    [sid \in {"13188", "2885", "777"} |->
        CASE sid = "13188" -> [name |-> "INFOSYS", trading |-> "INFY"]
          [] sid = "2885" -> [name |-> "ACME LIMITED", trading |-> ""]
          [] OTHER -> [name |-> "", trading |-> ""]]

\* security_id arguments: empty, blank, in the master (one with surrounding
\* blanks), not in the master
MetaIds == {"", " ", "13188", " 13188", "2885", "777", "999"}

\* str.strip() on the strings above
Strip(s) ==
    CASE s = " " -> ""
      [] s = " 13188" -> "13188"
      [] OTHER -> s

\* _normalize_company_name on the names above
Normalized(name) ==
    CASE name = "ACME LIMITED" -> "ACME"
      [] OTHER -> name

raw_company(row) == Strip(IF row.name # "" THEN row.name ELSE row.trading)

base_for_yf(row) ==
    IF Strip(row.trading) # "" THEN Strip(row.trading) ELSE Normalized(raw_company(row))

Suffixes == <<".NS", ".BO">>

\* what tkr.info may do: raise, or give a dict; a key the dict lacks reads as
\* the falsy "" / 0 of info.get
YfInfo(sector, industry, cap) ==
    [kind |-> "info", val |-> [sector |-> sector, industry |-> industry, marketCap |-> cap]]

YfAnswers ==
    {[kind |-> "raises"], YfInfo("", "Software", LargeCap), YfInfo("IT", "", 0),
     YfInfo("IT", "Software", LargeCap), YfInfo("Energy", "Oil", MidCap),
     YfInfo("Energy", "Oil", MidCap - 1)}

\* what self._pplx.ask_json(query) may do: raise (PerplexityClient of
\* perplexity_client.py defines no ask_json, so the call raises AttributeError;
\* a client that has the method may raise on HTTP errors), or return a value
AiDict(d) == [kind |-> "dict", val |-> d]

AiAnswers ==
    {[kind |-> "raises"], [kind |-> "list"],
     AiDict([mcap |-> "Large"]),
     AiDict([sector |-> "IT", mcap |-> "Large"]),
     AiDict([sector |-> "Energy", industry |-> "Oil", mcap |-> "Mid"])}

mcap_bucket(mcap_val) ==
    IF mcap_val = 0 THEN "Unknown"
    ELSE IF mcap_val >= LargeCap THEN "Large"
    ELSE IF mcap_val >= MidCap THEN "Mid"
    ELSE "Small"

OrUnknown(s) == IF s = "" THEN "Unknown" ELSE s

\* lines 228-240: the record built from a yfinance info with a sector
YfHasSector(a) == a.kind = "info" /\ a.val.sector # ""

YfOut(a) ==
    [sector |-> OrUnknown(a.val.sector), industry |-> OrUnknown(a.val.industry),
     mcap |-> mcap_bucket(a.val.marketCap)]

\* lines 260-261: isinstance(resp, dict) and "sector" in resp; setdefault
AiHasSector(a) == a.kind = "dict" /\ "sector" \in DOMAIN a.val

SetDefault(d, key, value) ==
    [k \in DOMAIN d \cup {key} |-> IF k \in DOMAIN d THEN d[k] ELSE value]

AiOut(a) == SetDefault(a.val, "industry", "Unknown")

Query(provider, arg, answer) == [provider |-> provider, arg |-> arg, answer |-> answer]

Put(c, sid, out) == [k \in DOMAIN c \cup {sid} |-> IF k = sid THEN out ELSE c[k]]

\* the outcome of one call: the value returned, the cache afterwards, the
\* provider queries made, and the line of the return statement
Outcome_Meta(ret, c, queries, line) ==
    [ret |-> ret, cache |-> c, queries |-> queries, line |-> line]

Fallback_Stored(c, sid, queries, line) ==
    Outcome_Meta(UnknownMeta, Put(c, sid, UnknownMeta), queries, line)

\* lines 207, 215, 268: the all-"Unknown" record, the cache untouched
Fallback(c, sid, queries, line) == Outcome_Meta(UnknownMeta, c, queries, line)

\* lines 222-247: the yfinance loop; yf_answers[i] is what suffix i gives
YfQueries(row, yf_answers, n) ==
    [i \in 1..n |-> Query("yfinance", <<base_for_yf(row), Suffixes[i]>>, yf_answers[i])]

YfHit(yf_answers) == {i \in 1..Len(Suffixes) : YfHasSector(yf_answers[i])}

FirstOf(S) == CHOOSE i \in S : \A j \in S : i <= j

\* lines 250-268
AiFallback(c, sid, row, pplx, ai_answer, queries) ==
    IF ~pplx THEN Fallback(c, sid, queries, 268)
    ELSE LET asked == Append(queries, Query("perplexity", raw_company(row), ai_answer))
         IN  IF AiHasSector(ai_answer)
             THEN Outcome_Meta(AiOut(ai_answer), Put(c, sid, AiOut(ai_answer)), asked, 264)
             ELSE Fallback(c, sid, asked, 268)

\* get_meta: c is self._meta_cache, yf_loaded whether the yfinance import
\* succeeded, pplx whether self._pplx is a client. The columns of self.df are
\* strings (lines 82-91), so nothing between lines 213 and 220 raises and the
\* outer except (line 270) is never entered.
get_meta(c, security_id, yf_loaded, pplx, yf_answers, ai_answer) ==
    LET sid == Strip(security_id)
    IN  IF sid = "" THEN Fallback(c, sid, << >>, 207)
        ELSE IF sid \in DOMAIN c THEN Outcome_Meta(c[sid], c, << >>, 210)
        ELSE IF sid \notin DOMAIN Master THEN Fallback(c, sid, << >>, 215)
        ELSE LET row == Master[sid]
                 tried == yf_loaded /\ base_for_yf(row) # ""
             IN  IF tried /\ YfHit(yf_answers) # {}
                 THEN LET i == FirstOf(YfHit(yf_answers))
                      IN  Outcome_Meta(YfOut(yf_answers[i]), Put(c, sid, YfOut(yf_answers[i])),
                                       YfQueries(row, yf_answers, i), 243)
                 ELSE AiFallback(c, sid, row, pplx, ai_answer,
                                 IF tried THEN YfQueries(row, yf_answers, Len(Suffixes))
                                 ELSE << >>)

\* one call of get_meta on the object; trace keeps the object's optional
\* clients and what the call did, prev the call before it
GetMeta(security_id, yf_answers, ai_answer) ==
    /\ pc = "ready"
    /\ trace.calls < MaxCalls
    /\ LET o == get_meta(cache, security_id, trace.yf, trace.pplx, yf_answers, ai_answer)
       IN  /\ cache' = o.cache
           /\ result' = Returned(o.ret)
           /\ prev' = trace
           /\ trace' = [yf |-> trace.yf, pplx |-> trace.pplx,
                        calls |-> trace.calls + 1, sid |-> Strip(security_id),
                        before |-> cache, queries |-> o.queries, line |-> o.line,
                        ret |-> o.ret]
    /\ UNCHANGED <<pc, bars, quantity, holdings, ohlc_map, curve, returns, meta_map,
                   prices, numeric, log>>

NoCall(yf_loaded, pplx) ==
    [yf |-> yf_loaded, pplx |-> pplx, calls |-> 0, sid |-> "",
     before |-> [k \in {} |-> UnknownMeta], queries |-> << >>, line |-> 0,
     ret |-> UnknownMeta]

InitMeta ==
    /\ pc = "ready"
    /\ cache = [k \in {} |-> UnknownMeta]
    /\ log = NoValue
    /\ \E y \in BOOLEAN, p \in BOOLEAN : trace = NoCall(y, p)
    /\ prev = trace
    /\ result = NoValue
    /\ numeric = NoValue
    /\ bars = NoValue /\ quantity = NoValue /\ holdings = NoValue
    /\ ohlc_map = NoValue /\ curve = NoValue /\ returns = NoValue
    /\ meta_map = NoValue /\ prices = NoValue

\* whether the call reaches the yfinance loop, and the AI fallback
AsksYf(sid) ==
    /\ sid \notin DOMAIN cache /\ sid \in DOMAIN Master
    /\ trace.yf /\ base_for_yf(Master[sid]) # ""

AsksAi(sid) == sid \notin DOMAIN cache /\ sid \in DOMAIN Master /\ trace.pplx

Unasked == [kind |-> "raises"]

\* the answers of the providers are enumerated for the queries the call makes:
\* an answer that is never asked for has no effect on the call
NextMeta ==
    \E security_id \in MetaIds :
        LET sid == Strip(security_id)
        IN  \E ns \in IF AsksYf(sid) THEN YfAnswers ELSE {Unasked} :
            \E bo \in IF AsksYf(sid) /\ ~YfHasSector(ns) THEN YfAnswers ELSE {Unasked} :
            \E ai_answer \in IF AsksAi(sid) /\ ~YfHasSector(ns) /\ ~YfHasSector(bo)
                              THEN AiAnswers ELSE {Unasked} :
                GetMeta(security_id, <<ns, bo>>, ai_answer)

SpecMeta == InitMeta /\ [][NextMeta]_vars

\* claims about get_meta ------------------------------------------------------

Called == pc = "ready" /\ trace.calls > 0

FallbackLines == {207, 215, 268}

\* the records the providers offered during the last call
Offered ==
    {YfOut(trace.queries[i].answer) :
        i \in {j \in DOMAIN trace.queries : /\ trace.queries[j].provider = "yfinance"
                                            /\ YfHasSector(trace.queries[j].answer)}}
    \cup
    {AiOut(trace.queries[i].answer) :
        i \in {j \in DOMAIN trace.queries : /\ trace.queries[j].provider = "perplexity"
                                            /\ AiHasSector(trace.queries[j].answer)}}

\* a provider can be asked about the id: it has a row in the master, and
\* yfinance is loaded and the row gives a ticker base, or the AI client exists
Askable(sid) ==
    /\ sid \in DOMAIN Master
    /\ \/ trace.yf /\ base_for_yf(Master[sid]) # ""
       \/ trace.pplx

\* the last two calls were for the same id and the first returned the fallback
FallbackThenSame ==
    /\ Called /\ prev.calls > 0
    /\ prev.line \in FallbackLines
    /\ trace.sid = prev.sid

StoresOnlySectors ==
    Called =>
        /\ \A s \in DOMAIN trace.before : s \in DOMAIN cache /\ cache[s] = trace.before[s]
        /\ cache # trace.before =>
              /\ trace.ret \in Offered
              /\ "sector" \in DOMAIN trace.ret
              /\ cache = Put(trace.before, trace.sid, trace.ret)
              /\ result = Returned(trace.ret)

ServedFromCache ==
    (Called /\ trace.sid \in DOMAIN trace.before) =>
        /\ result = Returned(trace.before[trace.sid])
        /\ trace.queries = << >>
        /\ cache = trace.before

FallbackNotStored ==
    (Called /\ trace.line \in FallbackLines) =>
        /\ result = Returned(UnknownMeta)
        /\ cache = trace.before
        /\ trace.sid \notin DOMAIN cache

\* C26 as stated: a record is cached only when a provider returned a sector;
\* a cached id is then served from the cache without any provider query; the
\* all-"Unknown" fallback record is never stored, so the next call for the same
\* id queries the providers again.
C26_QueriesAgain ==
    /\ StoresOnlySectors
    /\ ServedFromCache
    /\ FallbackNotStored
    /\ FallbackThenSame => trace.queries # << >>

\* C26, amended: as above, but after a fallback the next call for the same id
\* queries the providers again exactly when a provider can be asked about the
\* id; for an empty id, an id without a row in the master, or with no provider
\* available, the call returns the fallback again without any query.
C26_Cache ==
    /\ StoresOnlySectors
    /\ ServedFromCache
    /\ FallbackNotStored
    /\ FallbackThenSame =>
          IF Askable(trace.sid) THEN trace.queries # << >>
          ELSE trace.queries = << >> /\ result = Returned(UnknownMeta)

\* "13188" is answered by yfinance on the second suffix and cached, and the
\* next call for it is served from the cache without a query
C26_Witness ==
    /\ Called /\ trace.sid = "13188" /\ prev.sid = "13188"
    /\ prev.line = 243 /\ Len(prev.queries) = 2
    /\ prev.sid \notin DOMAIN prev.before
    /\ trace.line = 210 /\ trace.queries = << >>
    /\ result = Returned(prev.ret) /\ cache["13188"] = prev.ret

\* the fallback for an id without a row in the master, twice, with both
\* providers present: no provider is asked in either call
C26_UnknownId ==
    /\ FallbackThenSame /\ trace.sid = "999" /\ trace.yf /\ trace.pplx
    /\ prev.line = 215 /\ prev.queries = << >>
    /\ trace.line = 215 /\ trace.queries = << >>

\* after a fallback with providers that failed, the same id is asked again
C26_AskedAgain ==
    /\ FallbackThenSame /\ Askable(trace.sid)
    /\ prev.queries # << >> /\ trace.queries # << >>

(***************************************************************************)
(* SpecBuy: run_performance_module on a portfolio, and a caller that runs  *)
(* it again on the same quantities and bars with other buy prices.         *)
(***************************************************************************)
BuyRows ==
    [A |-> {Absent,
            [quantity |-> R(2), buy_price |-> R(1)],
            [quantity |-> Q(1, 3), buy_price |-> R(5)]},
     B |-> {Absent,
            [quantity |-> R(1), buy_price |-> R(2)],
            [quantity |-> R(1)]}]

BuyBars == [sym \in Syms |-> {Absent} \cup CleanFrames(MaxBars, PerfCloses)]

BuyPrices == {Zero, R(1), Q(7, 2)}

InitBuy ==
    /\ pc = "start"
    /\ holdings \in Dicts(BuyRows) /\ ohlc_map \in Dicts(BuyBars)
    /\ bars = NoValue /\ quantity = NoValue /\ curve = NoValue
    /\ returns = NoValue /\ meta_map = NoValue /\ prices = NoValue /\ numeric = NoValue
    /\ log = NoValue /\ cache = NoValue
    /\ result = NoValue /\ trace = NoValue /\ prev = NoValue

\* the caller gives every holding that has a buy price another one
ChangeBuyPrices(price) ==
    /\ pc = "run_performance_module"
    /\ prev' = [result |-> result, trace |-> trace, holdings |-> holdings]
    /\ holdings' = [sym \in DOMAIN holdings |->
                       [key \in DOMAIN holdings[sym] |->
                           IF key = "buy_price" THEN price[sym] ELSE holdings[sym][key]]]
    /\ pc' = "scaled"
    /\ UNCHANGED <<bars, quantity, ohlc_map, curve, result, trace, returns, meta_map,
                   prices, numeric, log, cache>>

NextBuy == RunPerformanceModule \/ \E price \in [Syms -> BuyPrices] : ChangeBuyPrices(price)

SpecBuy == InitBuy /\ [][NextBuy]_vars

\* the run returned metrics computed from a curve whose first value and whose
\* invested_value are both positive
Positive(r, t) ==
    /\ r.kind = "returned" /\ t.curve_raw # EmptySeries
    /\ RGt(t.inv_val, Zero) /\ RGt(t.curve_raw[1].v, Zero)

Growth(t) == RDiv(Last(t.curve_raw).v, t.curve_raw[1].v)

\* C27: whenever invested_value > 0 and the first value of the raw curve is
\* > 0, return_pct is (last raw / first raw - 1) x 100 and portfolio_value is
\* invested_value x last raw / first raw; running again with other buy prices
\* (invested_value still positive) changes neither return_pct nor max_drawdown.
C27_BuyPriceInvariant ==
    /\ (AfterRun /\ Positive(result, trace)) =>
          /\ trace.ret_pct = RMul(RSub(Growth(trace), R(1)), R(100))
          /\ result.val.return_pct = Round3(trace.ret_pct)
          /\ trace.port_val = RMul(trace.inv_val, Growth(trace))
          /\ result.val.portfolio_value = Round2(trace.port_val)
    /\ (pc = "rerun" /\ Positive(result, trace) /\ Positive(prev.result, prev.trace)) =>
          /\ trace.curve_raw = prev.trace.curve_raw
          /\ result.val.return_pct = prev.result.val.return_pct
          /\ result.val.max_drawdown = prev.result.val.max_drawdown

\* a portfolio that gained and then fell, run again with buy prices that change
\* its positive invested_value
C27_Witness ==
    /\ pc = "rerun" /\ Positive(result, trace) /\ Positive(prev.result, prev.trace)
    /\ trace.inv_val # prev.trace.inv_val
    /\ trace.inv_val # trace.curve_raw[1].v
    /\ result.val.portfolio_value # prev.result.val.portfolio_value
    /\ result.val.return_pct = prev.result.val.return_pct
    /\ result.val.return_pct # Zero
    /\ result.val.max_drawdown # Zero

\* C28: for every portfolio of 2 to 5 holdings with non-zero total value the
\* concentration sub-score of run_diversification_module is 0 (the top-5
\* concentration is the whole portfolio), so the composite score is at most 70.
C28_ConcentrationZero ==
    (AfterDiv /\ Valued /\ Size \in 2..TopCount) =>
        /\ IsMetrics
        /\ trace.top_5_concentration = R(1)
        /\ trace.conc_score = Zero
        /\ RLe(result.val.score, R(70))

\* two holdings of equal value: sub-scores 100, 100 and 0, score exactly 70
C28_Witness ==
    /\ AfterDiv /\ Valued /\ Size = 2 /\ AllEqual
    /\ trace.conc_score = Zero
    /\ trace.hhi_score = R(100) /\ trace.gini_score = R(100)
    /\ result.val.score = R(70)

\* five holdings of unequal value: concentration sub-score 0, score below 70
C28_FiveHoldings ==
    /\ AfterDiv /\ Valued /\ Size = TopCount /\ ~AllEqual
    /\ trace.conc_score = Zero
    /\ RLt(Zero, result.val.score) /\ RLt(result.val.score, R(70))

====
